---------------------------- MODULE Spec2Model ----------------------------
(***************************************************************************)
(* Model of the RIFT fraud-detection engine (Backend/src):                 *)
(*   CSVParser -> TransactionGraph -> GraphAnalyzerEnhanced (detectors,    *)
(*   Louvain) -> ScoreCalculatorEnhanced -> ring assembly -> JSONFormatter *)
(*                                                                         *)
(* Units.  Amounts are whole currency units.  Timestamps are whole hours   *)
(* counted from Monday 09:00 local time.  Scores are kept in hundredths    *)
(* of a point (5300 is 53.00), the resolution of every contribution of the *)
(* scorer (the Louvain bonus is 20 * a three-decimal number).              *)
(***************************************************************************)
EXTENDS Integers, Sequences, FiniteSets, TLC

VARIABLES
    csv,                 \* the csvContent handed to analyze
    pc,                  \* position of analyze between its progress milestones
    graph,               \* the TransactionGraph built by CSVParser.parse
    patterns,            \* allPatterns returned by detectAllPatterns
    accountScores,       \* Map accountId -> score filled by the scoring loop
    suspiciousAccounts,  \* array of SuspiciousAccount (account_id, score, patterns, ring_id)
    fraudRings,          \* array of FraudRing built after identifyFraudRingsEnhanced
    report,              \* the object JSONFormatter.format serialises, or NoReport
    progress,            \* percentages passed to the progress callback, in call order
    acct,                \* one account inside calculateSuspicionScore (SpecScore)
    returned,            \* what the earlier calls of analyze on this system returned
    options              \* options.enableDeepChainAnalysis given to the constructor

vars == <<csv, pc, graph, patterns, accountScores, suspiciousAccounts,
          fraudRings, report, progress, acct, returned, options>>

(***************************************************************************)
(* Bounds of the model                                                     *)
(***************************************************************************)
\* data rows of the analysed CSV file
MaxRows == 3

\* data rows of the files whose ring assembly is explored (SpecRings)
MaxRingRows == 5

\* calls of analyze on one system instance (SpecTwice)
MaxCalls == 2

\* data rows of the files that hold a chain of transfers (SpecDeep)
MaxDeepRows == 6

\* data rows of the files in which one account sends every transfer
\* (SpecVolume)
MaxVolumeRows == 20

\* the most transfers an account sends in the files whose cycles are
\* searched (SpecCycles)
MaxOut == 2

\* data rows of the files whose accounts are grouped into connectivity rings
\* for any choice of suspicious accounts (SpecComponents)
MaxComponentRows == 3

\* what the constructor's options can say about enableDeepChainAnalysis
DeepOptions == {"absent", "false", "true"}

\* the account ids of the model, in the order String.sort gives them
AccountOrder == <<"A", "B", "C", "D", "E", "F", "G", "H", "I", "J", "K", "L", "M", "N",
                  "O", "P", "Q">>

Accounts == {AccountOrder[i] : i \in 1..Len(AccountOrder)}

\* the account ids of the files analysed end to end (Spec)
FileAccounts == {"A", "B", "C"}

\* amounts a data row may carry: 0 is rejected by validateRecord, 1000 is round,
\* 1050 is not a multiple of 100
Amounts == {0, 1000, 1050}

\* how the rows' timestamps relate to file order: one hour apart ascending,
\* one hour apart descending, or all equal
TsModes == {"asc", "desc", "same"}

(***************************************************************************)
(* Generic helpers (JavaScript array and number primitives)                *)
(***************************************************************************)
Min2(a, b) == IF a <= b THEN a ELSE b

Max2(a, b) == IF a >= b THEN a ELSE b

Range(s) == {s[i] : i \in 1..Len(s)}

\* Array.prototype.includes
Includes(s, x) == \E i \in 1..Len(s) : s[i] = x

\* Array.prototype.indexOf, 0-based, -1 when absent
IndexOf(s, x) ==
    IF Includes(s, x)
    THEN (CHOOSE i \in 1..Len(s) : s[i] = x /\ \A j \in 1..(i-1) : s[j] # x) - 1
    ELSE -1

\* Array.prototype.filter for membership in a set
RECURSIVE FilterIn(_, _)
FilterIn(s, S) ==
    IF s = <<>> THEN <<>>
    ELSE IF Head(s) \in S THEN <<Head(s)>> \o FilterIn(Tail(s), S)
    ELSE FilterIn(Tail(s), S)

\* Set insertion order: the elements of s with later repetitions dropped
RECURSIVE Dedup(_)
Dedup(s) ==
    IF s = <<>> THEN <<>>
    ELSE LET r == Dedup(SubSeq(s, 1, Len(s) - 1))
             x == s[Len(s)]
         IN IF Includes(r, x) THEN r ELSE Append(r, x)

RECURSIVE SumSeq(_)
SumSeq(s) == IF s = <<>> THEN 0 ELSE Head(s) + SumSeq(Tail(s))

RECURSIVE MaxSeq(_)
MaxSeq(s) == IF Len(s) = 1 THEN s[1] ELSE Max2(s[1], MaxSeq(Tail(s)))

\* position of an account id in String order
Rank(a) == CHOOSE i \in 1..Len(AccountOrder) : AccountOrder[i] = a

\* a < b on account-id strings
IdLess(a, b) == Rank(a) < Rank(b)

\* an array left in the order it was built in
KeepOrder(s) == s

\* Array.prototype.sort() with the default comparator on account ids
RECURSIVE SortIds(_)
SortIds(s) ==
    IF s = <<>> THEN <<>>
    ELSE LET rest == SortIds(Tail(s))
             x == Head(s)
             k == Cardinality({i \in 1..Len(rest) : IdLess(rest[i], x)})
         IN SubSeq(rest, 1, k) \o <<x>> \o SubSeq(rest, k + 1, Len(rest))

\* a non-negative quotient a / b rounded to the nearest integer, half up,
\* as toFixed rounds an exactly representable value
RoundDiv(a, b) == (a \div b) + (IF 2 * (a % b) >= b THEN 1 ELSE 0)

(***************************************************************************)
(* CSV input.  A file is either blank, or a header line followed by data   *)
(* rows.  A data row carries sender, receiver and amount; its transaction  *)
(* id is its position and its timestamp follows from the file's tsMode.    *)
(***************************************************************************)
\* rows of the modelled files never transfer from an account to itself
Rows(ids, amounts) ==
    {r \in [sender : ids, receiver : ids, amount : amounts] : r.sender # r.receiver}

RowSeqs(ids, amounts, n) == [1..n -> Rows(ids, amounts)]

CsvInputs ==
    [kind : {"blank", "badheader"}, rows : {<<>>}, tsMode : {"asc"}]
    \cup [kind : {"ok"}, rows : {<<>>}, tsMode : {"asc"}]
    \cup UNION {[kind : {"ok"}, rows : RowSeqs(FileAccounts, Amounts, n), tsMode : TsModes] :
                  n \in 1..MaxRows}

\* the transfers the files of SpecRings are made of: the cycle A, B, C and
\* the payments of D to E and F
RingTransfers ==
    {<<"A", "B">>, <<"B", "C">>, <<"C", "A">>, <<"D", "E">>, <<"D", "F">>}

RingRowSet == {[sender |-> t[1], receiver |-> t[2], amount |-> 1000] : t \in RingTransfers}

\* the files of SpecRings: valid rows of one amount, one hour apart
RingCsvInputs ==
    UNION {[kind : {"ok"}, rows : [1..n -> RingRowSet], tsMode : {"asc"}] :
             n \in 1..MaxRingRows}

\* the rows of the files of SpecDeep: the cycle A -> B -> C -> A and the
\* chain C -> D -> E -> F that leaves it
DeepTransfers ==
    <<[sender |-> "A", receiver |-> "B", amount |-> 1000],
      [sender |-> "B", receiver |-> "C", amount |-> 1000],
      [sender |-> "C", receiver |-> "A", amount |-> 1000],
      [sender |-> "C", receiver |-> "D", amount |-> 1000],
      [sender |-> "D", receiver |-> "E", amount |-> 1000],
      [sender |-> "E", receiver |-> "F", amount |-> 1000]>>

\* the files of SpecDeep: any of these rows, in this order, one hour apart
DeepCsvInputs ==
    {[kind |-> "ok", rows |-> FilterIn(DeepTransfers, kept), tsMode |-> mode] :
        kept \in {k \in SUBSET Range(DeepTransfers) : Cardinality(k) <= MaxDeepRows},
        mode \in {"asc", "desc"}}

\* the files of SpecCycles: every account sends at most one transfer to each
\* of up to MaxOut other accounts, in any order; the rows are grouped by sender
CycleAccounts == {"A", "B", "C", "D"}

ReceiverLists(a) ==
    {l \in UNION {[1..n -> CycleAccounts \ {a}] : n \in 0..MaxOut} :
        \A i, j \in 1..Len(l) : i # j => l[i] # l[j]}

RECURSIVE RowsBySender(_, _)
RowsBySender(lists, k) ==
    IF k = 0 THEN <<>>
    ELSE RowsBySender(lists, k - 1)
         \o [i \in 1..Len(lists[k]) |->
               [sender |-> AccountOrder[k], receiver |-> lists[k][i], amount |-> 1000]]

CycleCsvInputs ==
    {[kind |-> "ok", rows |-> RowsBySender(<<la, lb, lc, ld>>, 4), tsMode |-> "asc"] :
        la \in ReceiverLists("A"), lb \in ReceiverLists("B"),
        lc \in ReceiverLists("C"), ld \in ReceiverLists("D")}

\* the files of SpecComponents: transfers of one amount among four accounts
ComponentCsvInputs ==
    UNION {[kind : {"ok"}, rows : RowSeqs(CycleAccounts, {1000}, n), tsMode : {"asc"}] :
             n \in 1..MaxComponentRows}

\* the files of SpecVolume: 13 or more transfers of account A, the i-th to
\* the ((i - 1) mod d) + 1-th of the other accounts; besides the TsModes, the
\* rows are 5 or 6 hours apart, or one hour apart with the last row 72 or 73
\* hours after the first
VolumeCsvInputs ==
    {[kind |-> "ok",
      rows |-> [i \in 1..n |-> [sender |-> "A",
                                receiver |-> AccountOrder[2 + ((i - 1) % d)],
                                amount |-> 1000]],
      tsMode |-> mode] :
        n \in 13..MaxVolumeRows,
        d \in 13..16,
        mode \in TsModes \cup {"every5h", "every6h", "last72", "last73"}}

\* the files of SpecActivity carry their timestamp column (tsMode "column"):
\* transfers between A and B, alternately A to B and B to A, the time of
\* row i being the sum of the gaps before it; listed oldest first or newest
\* first
MaxBurstRows == 11

Reverse(s) == [i \in 1..Len(s) |-> s[Len(s) + 1 - i]]

TimelineRows(gaps, amounts) ==
    LET t[i \in 1..(Len(gaps) + 1)] == IF i = 1 THEN 0 ELSE t[i - 1] + gaps[i - 1]
    IN [i \in 1..(Len(gaps) + 1) |->
          [sender |-> IF i % 2 = 1 THEN "A" ELSE "B",
           receiver |-> IF i % 2 = 1 THEN "B" ELSE "A",
           amount |-> amounts[i], timestamp |-> t[i]]]

TimelineCsv(rows, newestFirst) ==
    [kind |-> "ok", rows |-> IF newestFirst THEN Reverse(rows) ELSE rows, tsMode |-> "column"]

\* 10 or more transfers one hour or a hundred hours apart
BurstCsvInputs ==
    UNION {{TimelineCsv(TimelineRows(gaps, [i \in 1..n |-> 1000]), newestFirst) :
              gaps \in [1..(n - 1) -> {1, 100}], newestFirst \in BOOLEAN} :
           n \in 10..MaxBurstRows}

\* 4 or more transfers an hour, 30 days or 31 days apart
MaxDormancyRows == 6

DormancyCsvInputs ==
    UNION {{TimelineCsv(TimelineRows(gaps, [i \in 1..n |-> 1000]), newestFirst) :
              gaps \in [1..(n - 1) -> {1, 720, 744}], newestFirst \in BOOLEAN} :
           n \in 4..MaxDormancyRows}

\* 6 or more transfers a fixed number of hours apart, A paying 1000 and B
\* paying back a fixed amount
MaxWashRows == 10

WashCsvInputs ==
    {TimelineCsv(TimelineRows([i \in 1..(n - 1) |-> gap],
                              [i \in 1..n |-> IF i % 2 = 1 THEN 1000 ELSE back]), FALSE) :
        n \in 6..MaxWashRows, gap \in {1, 24, 100}, back \in {1000, 1050, 1200}}

\* up to MaxCorrelationRows transfers among A, B and C at hour 0 or hour 2
MaxCorrelationRows == 3

CorrelationCsvInputs ==
    UNION {[kind : {"ok"},
            rows : [1..n -> [sender : {"A", "B"}, receiver : {"C"}, amount : {1000},
                             timestamp : {0, 2}]
                            \cup [sender : {"A"}, receiver : {"B"}, amount : {1000},
                                  timestamp : {0, 2}]],
            tsMode : {"column"}] : n \in 1..MaxCorrelationRows}

\* the number of addTransaction calls made on the graph of SpecGraph
MaxAdds == 3

\* the timestamp column of row i of n, in hours
RowTimestamp(mode, i, n) ==
    CASE mode = "asc" -> i - 1
      [] mode = "desc" -> n - i
      [] mode = "every5h" -> 5 * (i - 1)
      [] mode = "every6h" -> 6 * (i - 1)
      [] mode = "last72" -> IF i = n THEN 72 ELSE i - 1
      [] mode = "last73" -> IF i = n THEN 73 ELSE i - 1
      [] OTHER -> 0

NoGraph == [txs |-> <<>>, outKeys |-> <<>>, inKeys |-> <<>>,
            out |-> [a \in Accounts |-> <<>>], inc |-> [a \in Accounts |-> <<>>]]

\* an addTransaction that skips a transaction whose id the graph already holds
addTransactionOnce(g, senderId, receiverId, amount, timestamp, transactionId) ==
    LET transaction == [transaction_id |-> transactionId, sender_id |-> senderId,
                        receiver_id |-> receiverId, amount |-> amount,
                        timestamp |-> timestamp]
    IN IF \E i \in 1..Len(g.txs) : g.txs[i].transaction_id = transactionId THEN g
       ELSE [txs |-> Append(g.txs, transaction),
             outKeys |-> IF Includes(g.outKeys, senderId) THEN g.outKeys
                         ELSE Append(g.outKeys, senderId),
             inKeys |-> IF Includes(g.inKeys, receiverId) THEN g.inKeys
                        ELSE Append(g.inKeys, receiverId),
             out |-> [g.out EXCEPT ![senderId] = Append(@, transaction)],
             inc |-> [g.inc EXCEPT ![receiverId] = Append(@, transaction)]]

\* TransactionGraph.addTransaction
addTransaction(g, senderId, receiverId, amount, timestamp, transactionId) ==
    LET transaction == [transaction_id |-> transactionId, sender_id |-> senderId,
                        receiver_id |-> receiverId, amount |-> amount,
                        timestamp |-> timestamp]
        known == \E i \in 1..Len(g.txs) : g.txs[i].transaction_id = transactionId
    IN [txs |-> IF known
                THEN [i \in 1..Len(g.txs) |->
                        IF g.txs[i].transaction_id = transactionId
                        THEN transaction ELSE g.txs[i]]
                ELSE Append(g.txs, transaction),
        outKeys |-> IF Includes(g.outKeys, senderId) THEN g.outKeys
                    ELSE Append(g.outKeys, senderId),
        inKeys |-> IF Includes(g.inKeys, receiverId) THEN g.inKeys
                   ELSE Append(g.inKeys, receiverId),
        out |-> [g.out EXCEPT ![senderId] = Append(@, transaction)],
        inc |-> [g.inc EXCEPT ![receiverId] = Append(@, transaction)]]

\* TransactionGraph.getAllAccounts: outgoing keys, then incoming keys, first occurrence kept
getAllAccounts(g) == Dedup(g.outKeys \o g.inKeys)

\* TransactionGraph.getOutgoingTransactions
getOutgoingTransactions(g, a) == g.out[a]

\* TransactionGraph.getIncomingTransactions
getIncomingTransactions(g, a) == g.inc[a]

\* TransactionGraph.getAccountTransactions
getAccountTransactions(g, a) == g.out[a] \o g.inc[a]

\* CSVParser.validateRecord: the amount must be a positive number
validateRecord(r) == r.amount > 0

\* CSVParser.parse, the loop over data rows 1..k of the file
\* a variant in which parse keeps filling the graph of the call before
staleTransactionGraph == graph

\* `const graph = new TransactionGraph()` of CSVParser.parse
newTransactionGraph == NoGraph

RECURSIVE parseRows(_, _)
parseRows(c, k) ==
    IF k = 0 THEN newTransactionGraph
    ELSE addTransaction(parseRows(c, k - 1), c.rows[k].sender, c.rows[k].receiver,
                        c.rows[k].amount,
                        IF c.tsMode = "column" THEN c.rows[k].timestamp
                        ELSE RowTimestamp(c.tsMode, k, Len(c.rows)),
                        k)

\* CSVParser.parse: the ParseError it throws, or "none"
parseError(c) ==
    CASE c.kind = "blank" -> "CSV content is empty"
      [] c.kind = "badheader" -> "CSV header missing required fields"
      [] \E i \in 1..Len(c.rows) : ~validateRecord(c.rows[i]) -> "Line: invalid amount"
      [] OTHER -> "none"

\* CSVParser.parse: the graph it returns when it does not throw
parse(c) == parseRows(c, Len(c.rows))

(***************************************************************************)
(* GraphAnalyzerEnhanced.detectCyclesEfficient                             *)
(***************************************************************************)
\* default of the maxCycles parameter; detectAllPatterns passes no argument
maxCycles == 100

\* Math.min(...ids) on the account ids of a path.  Ids are CSV strings: a
\* non-numeric id makes the result NaN, and a Number is never === a string
MathMinIds(s) == "NaN"

\* Array.prototype.slice(i) with JavaScript's negative-index rule
SliceFrom(s, i) ==
    LET from == IF i < 0 THEN Max2(Len(s) + i, 0) ELSE Min2(i, Len(s))
    IN SubSeq(s, from + 1, Len(s))

\* Array.prototype.slice(0, i) with JavaScript's negative-index rule
SliceTo(s, i) ==
    LET to == IF i < 0 THEN Max2(Len(s) + i, 0) ELSE Min2(i, Len(s))
    IN SubSeq(s, 1, to)

\* the "normalized" representation detectCyclesEfficient compares cycles by
normalizeCycle(cycleAccounts) ==
    LET minIdx == IndexOf(cycleAccounts, MathMinIds(cycleAccounts))
    IN SliceFrom(cycleAccounts, minIdx) \o SliceTo(cycleAccounts, minIdx)

\* the branch of dfs taken when the neighbor is on the recursion stack
recordCycle(st, neighbor) ==
    LET cycleStart == IndexOf(st.path, neighbor)
        cycleLength == Len(st.path) - cycleStart
        cycleAccounts == SliceFrom(st.path, cycleStart)
        isDuplicate == \E i \in 1..Len(st.cycles) :
                          normalizeCycle(st.cycles[i].accounts) = normalizeCycle(cycleAccounts)
    IN IF cycleStart >= 0 /\ cycleLength >= 3 /\ cycleLength <= 5 /\ ~isDuplicate
       THEN [st EXCEPT !.cycles = Append(@, [accounts |-> cycleAccounts,
                                              length |-> cycleLength])]
       ELSE st

\* the closure dfs(node, depth) and its loop over the outgoing transactions from index k
RECURSIVE dfs(_, _, _, _)
RECURSIVE dfsEdges(_, _, _, _, _)
dfs(g, st, node, depth) ==
    IF depth > 5 \/ Len(st.cycles) >= maxCycles THEN st
    ELSE LET entered == [st EXCEPT !.visited = @ \cup {node},
                                   !.recursionStack = @ \cup {node},
                                   !.path = Append(@, node)]
             left == dfsEdges(g, entered, node, depth, 1)
         IN [left EXCEPT !.path = SubSeq(@, 1, Len(@) - 1),
                         !.recursionStack = @ \ {node}]

dfsEdges(g, st, node, depth, k) ==
    LET outgoing == getOutgoingTransactions(g, node)
    IN IF k > Len(outgoing) \/ Len(st.cycles) >= maxCycles THEN st
       ELSE LET neighbor == outgoing[k].receiver_id
                next == IF neighbor \in st.recursionStack THEN recordCycle(st, neighbor)
                        ELSE IF neighbor \notin st.visited /\ depth < 4
                             THEN dfs(g, st, neighbor, depth + 1)
                        ELSE st
            IN dfsEdges(g, next, node, depth, k + 1)

\* the loop of detectCyclesEfficient over the start accounts from index k
RECURSIVE cyclesFrom(_, _, _, _)
cyclesFrom(g, accounts, k, cycles) ==
    IF k > Len(accounts) \/ Len(cycles) >= maxCycles THEN cycles
    ELSE LET fresh == [visited |-> {}, recursionStack |-> {}, path |-> <<>>,
                       cycles |-> cycles]
         IN cyclesFrom(g, accounts, k + 1, dfs(g, fresh, accounts[k], 0).cycles)

detectCyclesEfficient(g) == cyclesFrom(g, getAllAccounts(g), 1, <<>>)

(***************************************************************************)
(* Detectors of GraphAnalyzerEnhanced that can fire on an account with     *)
(* fewer than five transactions.  A Map keyed by account id is a function  *)
(* whose DOMAIN is the key set.                                            *)
(***************************************************************************)
\* null: the ring_id a SuspiciousAccount is constructed with, the bounds of a
\* longest gap before a gap is found
Null == <<>>

\* Array.prototype.sort((a, b) => a.timestamp - b.timestamp), which is stable
RECURSIVE SortByTs(_)
SortByTs(s) ==
    IF s = <<>> THEN <<>>
    ELSE LET init == SortByTs(SubSeq(s, 1, Len(s) - 1))
             x == s[Len(s)]
             k == Cardinality({i \in 1..Len(init) : init[i].timestamp <= x.timestamp})
         IN SubSeq(init, 1, k) \o <<x>> \o SubSeq(init, k + 1, Len(init))

\* the [...incoming, ...outgoing] array most detectors build for an account
inOutTxs(g, a) == getIncomingTransactions(g, a) \o getOutgoingTransactions(g, a)

Amts(txs) == [i \in 1..Len(txs) |-> txs[i].amount]

(***************************************************************************)
(* detectFanOutPatterns and detectFrequencyAnomalies                       *)
(***************************************************************************)
\* `sorted[j].timestamp <= windowEnd` with windowEnd 72 hours after the anchor
withinWindowStrictly(timestamp, windowStart) == timestamp < windowStart + 72

withinWindow(timestamp, windowStart) == timestamp <= windowStart + 72

\* the receivers the inner loop collects for the window anchored at sorted[i]:
\* it walks on from i and stops at the first transfer past the window's end
windowReceivers(sorted, i) ==
    {sorted[j].receiver_id :
        j \in {m \in i..Len(sorted) :
                 \A k \in i..m : withinWindow(sorted[k].timestamp, sorted[i].timestamp)}}

\* bestWindow of one account: the first window with the most receivers
bestFanOutWindow(a, outgoing) ==
    LET sorted == SortByTs(outgoing)
        size(i) == Cardinality(windowReceivers(sorted, i))
        i == CHOOSE m \in 1..Len(sorted) :
                 /\ \A k \in 1..Len(sorted) : size(k) <= size(m)
                 /\ \A k \in 1..(m - 1) : size(k) < size(m)
    IN [sender_id |-> a, receiver_count |-> size(i),
        window_start |-> sorted[i].timestamp, window_end |-> sorted[i].timestamp + 72]

detectFanOutPatterns(g) ==
    LET flagged == {a \in Range(getAllAccounts(g)) :
                      /\ Len(getOutgoingTransactions(g, a)) >= 15
                      /\ bestFanOutWindow(a, getOutgoingTransactions(g, a)).receiver_count >= 15}
    IN [a \in flagged |-> bestFanOutWindow(a, getOutgoingTransactions(g, a))]

\* the value of a division of a positive number by zero
Infinity == 1000 * 1000 * 1000

\* txsPerDay is a two-decimal string, in hundredths, or Infinity; timeSpanDays
\* a whole number of days
detectFrequencyAnomalies(g) ==
    LET txs(a) == SortByTs(inOutTxs(g, a))
        timeSpan(a) == txs(a)[Len(txs(a))].timestamp - txs(a)[1].timestamp
        flagged == {a \in Range(getAllAccounts(g)) :
                      /\ Len(txs(a)) >= 20
                      /\ 24 * Len(txs(a)) > 20 * timeSpan(a)}
    IN [a \in flagged |->
          [txsPerDay |-> IF timeSpan(a) = 0 THEN Infinity
                         ELSE RoundDiv(100 * 24 * Len(txs(a)), timeSpan(a)),
           totalTransactions |-> Len(txs(a)),
           timeSpanDays |-> RoundDiv(timeSpan(a), 24)]]

detectShellAccounts(g) ==
    {a \in Range(getAllAccounts(g)) :
        LET nin == Len(getIncomingTransactions(g, a))
            nout == Len(getOutgoingTransactions(g, a))
        IN nin + nout <= 3 /\ nin + nout > 0 /\ nin > 0 /\ nout > 0}

\* the events array of detectPassthroughBehavior for one account: with both
\* lists sorted, the two-pointer scan pairs every incoming transaction with
\* the outgoing ones 0 to 6 hours later, and stops at 100 events
passthroughEvents(g, a) ==
    LET sortedIn == SortByTs(getIncomingTransactions(g, a))
        sortedOut == SortByTs(getOutgoingTransactions(g, a))
        pairs == {p \in (1..Len(sortedIn)) \X (1..Len(sortedOut)) :
                    LET timeDelta == sortedOut[p[2]].timestamp - sortedIn[p[1]].timestamp
                    IN timeDelta >= 0 /\ timeDelta <= 6}
    IN Min2(Cardinality(pairs), 100)

detectPassthroughBehavior(g) ==
    [a \in {b \in Range(getAllAccounts(g)) :
               /\ Len(getIncomingTransactions(g, b)) # 0
               /\ Len(getOutgoingTransactions(g, b)) # 0
               /\ passthroughEvents(g, b) > 0}
       |-> [length |-> passthroughEvents(g, a)]]

\* tx.amount % 1000 === 0 || tx.amount % 500 === 0 || tx.amount % 100 === 0
isRoundAmount(amount) == amount % 1000 = 0 \/ amount % 500 = 0 \/ amount % 100 = 0

roundCount(txs) == Cardinality({i \in 1..Len(txs) : isRoundAmount(txs[i].amount)})

\* round_number_percentage is kept as the fraction roundCount / total_transactions
detectStructuring(g) ==
    [a \in {b \in Range(getAllAccounts(g)) :
               /\ Len(inOutTxs(g, b)) # 0
               /\ 10 * roundCount(inOutTxs(g, b)) > 7 * Len(inOutTxs(g, b))}
       |-> [roundCount |-> roundCount(inOutTxs(g, a)),
            total_transactions |-> Len(inOutTxs(g, a))]]

nearThreshold(txs) ==
    Cardinality({i \in 1..Len(txs) : txs[i].amount >= 9000 /\ txs[i].amount <= 9999})

\* clustering_consistency is kept as the fraction nearThreshold / transaction_count
detectThresholdAvoidance(g) ==
    [a \in {b \in Range(getAllAccounts(g)) :
               /\ Len(inOutTxs(g, b)) # 0
               /\ SumSeq(Amts(inOutTxs(g, b))) >= 9000 * Len(inOutTxs(g, b))
               /\ SumSeq(Amts(inOutTxs(g, b))) <= 9999 * Len(inOutTxs(g, b))}
       |-> [nearThreshold |-> nearThreshold(inOutTxs(g, a)),
            transaction_count |-> Len(inOutTxs(g, a))]]

\* allAmounts.sort((a, b) => a - b) of _calculateStatistics
RECURSIVE SortNums(_)
SortNums(s) ==
    IF s = <<>> THEN <<>>
    ELSE LET init == SortNums(SubSeq(s, 1, Len(s) - 1))
             x == s[Len(s)]
             k == Cardinality({i \in 1..Len(init) : init[i] <= x})
         IN SubSeq(init, 1, k) \o <<x>> \o SubSeq(init, k + 1, Len(init))

RECURSIVE FlatAmounts(_, _)
FlatAmounts(g, accounts) ==
    IF accounts = <<>> THEN <<>>
    ELSE Amts(inOutTxs(g, Head(accounts))) \o FlatAmounts(g, Tail(accounts))

\* _calculateStatistics: the quartiles detectAmountAnomalies reads; an empty
\* allAmounts makes both undefined, written 0 here and never compared
calculateStatistics(g) ==
    LET allAmounts == SortNums(FlatAmounts(g, getAllAccounts(g)))
        n == Len(allAmounts)
    IN IF n = 0 THEN [amountQ1 |-> 0, amountQ3 |-> 0, totalTransactions |-> 0]
       ELSE [amountQ1 |-> allAmounts[(n \div 4) + 1],
             amountQ3 |-> allAmounts[((3 * n) \div 4) + 1],
             totalTransactions |-> n]

\* the outliers of one account: amount < Q1 - 1.5 iqr or amount > Q3 + 1.5 iqr
outlierCount(g, a) ==
    LET stats == calculateStatistics(g)
        iqr == stats.amountQ3 - stats.amountQ1
        txs == inOutTxs(g, a)
    IN Cardinality({i \in 1..Len(txs) :
                      \/ 2 * txs[i].amount < 2 * stats.amountQ1 - 3 * iqr
                      \/ 2 * txs[i].amount > 2 * stats.amountQ3 + 3 * iqr})

\* outlierRatio is outlierRatio.toFixed(2), kept in hundredths
detectAmountAnomalies(g) ==
    [a \in {b \in Range(getAllAccounts(g)) :
               /\ Len(inOutTxs(g, b)) # 0
               /\ outlierCount(g, b) > 0
               /\ 10 * outlierCount(g, b) > 3 * Len(inOutTxs(g, b))}
       |-> [outlierRatio |-> RoundDiv(100 * outlierCount(g, a), Len(inOutTxs(g, a)))]]

\* what detectAmountSplitting leaves behind in the graph: it sorts the array
\* getOutgoingTransactions returns, which is the graph's own array
sortOutgoingInPlace(g) == [g EXCEPT !.out = [a \in Accounts |-> SortByTs(g.out[a])]]

\* the 24-hour window that starts at outgoing[i] (1-based), outgoing sorted by time
splitWindow(outgoing, i) ==
    LET last == CHOOSE j \in i..Len(outgoing) :
                   /\ \A k \in i..j : outgoing[k].timestamp <= outgoing[i].timestamp + 24
                   /\ (j = Len(outgoing) \/ outgoing[j + 1].timestamp > outgoing[i].timestamp + 24)
    IN SubSeq(outgoing, i, last)

\* maxDeviation < 0.2, i.e. |a - avg| / avg < 1/5 for every amount of the window
similarAmounts(amounts) ==
    LET sum == SumSeq(amounts)
        n == Len(amounts)
    IN \A i \in 1..n :
          LET d == n * amounts[i] - sum
          IN 5 * (IF d < 0 THEN -d ELSE d) < sum

\* the loop of detectAmountSplitting over window starts i..Len-2 for one account;
\* best is the entry kept so far, totalAmount 0 when there is none
RECURSIVE splitScan(_, _, _)
splitScan(outgoing, i, best) ==
    IF i > Len(outgoing) - 2 THEN best
    ELSE LET window == splitWindow(outgoing, i)
             amounts == Amts(window)
             hit == Len(window) >= 3 /\ similarAmounts(amounts)
             next == IF hit /\ (best.splitCount = 0 \/ best.totalAmount < SumSeq(amounts))
                     THEN [splitCount |-> Len(window), totalAmount |-> SumSeq(amounts)]
                     ELSE best
         IN splitScan(outgoing, i + 1, next)

splitEntry(g, a) ==
    splitScan(SortByTs(getOutgoingTransactions(g, a)), 1, [splitCount |-> 0, totalAmount |-> 0])

detectAmountSplitting(g) ==
    [a \in {b \in Range(getAllAccounts(g)) :
               /\ Len(getOutgoingTransactions(g, b)) >= 3
               /\ splitEntry(g, b).splitCount > 0}
       |-> splitEntry(g, a)]

\* detectRoundTripTransactionsOptimized: trips A -> B -> A whose return leaves
\* 0 to 48 hours after the outgoing transfer, at most 10 counted per account
roundTripCount(g, a) ==
    LET outgoing == getOutgoingTransactions(g, a)
        trips == {p \in (1..Len(outgoing)) \X (1..Len(g.txs)) :
                    LET tx1 == outgoing[p[1]]
                        back == getOutgoingTransactions(g, tx1.receiver_id)
                    IN /\ p[2] <= Len(back)
                       /\ back[p[2]].receiver_id = a
                       /\ back[p[2]].timestamp - tx1.timestamp <= 48
                       /\ back[p[2]].timestamp - tx1.timestamp >= 0}
    IN Min2(Cardinality(trips), 10)

detectRoundTripTransactionsOptimized(g) ==
    [a \in {b \in Range(getAllAccounts(g)) :
               /\ Len(getOutgoingTransactions(g, b)) # 0
               /\ roundTripCount(g, b) >= 2}
       |-> [roundTripCount |-> roundTripCount(g, a)]]

(***************************************************************************)
(* Detectors of the activity over time of an account                       *)
(***************************************************************************)
\* detectBurstActivity: the scan of timeDiffs[1..k], where a gap is short
\* when diff < avgTimeDiff * 0.2
burstScan(timeDiffs, k) ==
    LET total == SumSeq(timeDiffs)
        scan[i \in 0..k] ==
            IF i = 0 THEN <<0, 0, 0>>
            ELSE IF 5 * timeDiffs[i] * Len(timeDiffs) < total
                 THEN (LET b == scan[i - 1]
                       IN <<b[1], Max2(b[2], b[3] + 1), b[3] + 1>>)
                 ELSE (LET b == scan[i - 1]
                       IN <<IF b[3] >= 3 THEN b[1] + 1 ELSE b[1], b[2], 0>>)
    IN [burstCount |-> scan[k][1], maxBurstSize |-> scan[k][2], currentBurst |-> scan[k][3]]

\* detectBurstActivity; avgTimeBetweenTxs in hundredths of an hour
detectBurstActivity(g) ==
    LET accounts == getAllAccounts(g)
        entry(a) ==
            LET txs == SortByTs(inOutTxs(g, a))
                timeDiffs == [i \in 1..(Len(txs) - 1) |->
                                 txs[i + 1].timestamp - txs[i].timestamp]
                scan == burstScan(timeDiffs, Len(timeDiffs))
            IN IF Len(txs) >= 10 /\ (scan.burstCount > 0 \/ scan.maxBurstSize >= 5)
               THEN [hit |-> TRUE, burstCount |-> scan.burstCount,
                     maxBurstSize |-> scan.maxBurstSize,
                     avgTimeBetweenTxs |-> RoundDiv(100 * SumSeq(timeDiffs), Len(timeDiffs))]
               ELSE [hit |-> FALSE]
    IN [a \in {x \in Range(accounts) : entry(x).hit} |-> entry(a)]

\* detectDormancyReactivation: the longest gap among txs[1..k], the first
\* of several equally long ones
RECURSIVE longestGap(_, _)
longestGap(txs, k) ==
    IF k <= 1 THEN [maxGap |-> 0, maxGapStart |-> Null, maxGapEnd |-> Null]
    ELSE LET before == longestGap(txs, k - 1)
             gap == txs[k].timestamp - txs[k - 1].timestamp
         IN IF gap > before.maxGap
            THEN [maxGap |-> gap, maxGapStart |-> txs[k - 1].timestamp,
                  maxGapEnd |-> txs[k].timestamp]
            ELSE before

\* detectDormancyReactivation; 30 days are 720 hours, dormancyDays is
\* maxGapDays.toFixed(0)
detectDormancyReactivation(g) ==
    LET accounts == getAllAccounts(g)
        entry(a) ==
            LET txs == SortByTs(inOutTxs(g, a))
                longest == longestGap(txs, Len(txs))
                reactivationTxs ==
                    Cardinality({i \in 1..Len(txs) : txs[i].timestamp >= longest.maxGapEnd})
            IN IF Len(txs) >= 5 /\ longest.maxGap > 720 /\ reactivationTxs >= 3
               THEN [hit |-> TRUE, dormancyDays |-> RoundDiv(longest.maxGap, 24),
                     dormancyStart |-> longest.maxGapStart,
                     reactivationDate |-> longest.maxGapEnd,
                     txsAfterReactivation |-> reactivationTxs]
               ELSE [hit |-> FALSE]
    IN [a \in {x \in Range(accounts) : entry(x).hit} |-> entry(a)]

\* the limit of wash trades per account
MAX_WASH_TRADES == 10

Abs(x) == IF x < 0 THEN -x ELSE x

\* detectWashTrading: washTrades after the pairs before (outgoing[i], incoming[j])
\* in loop order; a pair is pushed while fewer than MAX_WASH_TRADES are held.
\* timeDiffHours in tenths of an hour, amountDiff in tenths of a percent
RECURSIVE washTradesUpTo(_, _, _, _)
washTradesUpTo(outgoing, incoming, i, j) ==
    IF i = 0 \/ Len(incoming) = 0 THEN <<>>
    ELSE IF j = 0 THEN washTradesUpTo(outgoing, incoming, i - 1, Len(incoming))
    ELSE LET before == washTradesUpTo(outgoing, incoming, i, j - 1)
             outTx == outgoing[i]
             inTx == incoming[j]
             diff == Abs(outTx.amount - inTx.amount)
             timeDiff == Abs(outTx.timestamp - inTx.timestamp)
         IN IF /\ Len(before) < MAX_WASH_TRADES
               /\ ~(10 * diff > outTx.amount)
               /\ outTx.receiver_id = inTx.sender_id
               /\ timeDiff <= 48
            THEN Append(before, [counterparty |-> outTx.receiver_id,
                                 outAmount |-> outTx.amount, inAmount |-> inTx.amount,
                                 timeDiffHours |-> 10 * timeDiff,
                                 amountDiff |-> RoundDiv(1000 * diff, outTx.amount)])
            ELSE before

detectWashTrading(g) ==
    LET accounts == getAllAccounts(g)
        entry(a) ==
            LET outgoing == getOutgoingTransactions(g, a)
                incoming == getIncomingTransactions(g, a)
                washTrades ==
                    IF Len(outgoing) < 5 \/ Len(incoming) < 5 THEN <<>>
                    ELSE washTradesUpTo(outgoing, incoming, Len(outgoing), Len(incoming))
            IN IF Len(washTrades) >= 3
               THEN [hit |-> TRUE, washTradeCount |-> Len(washTrades),
                     examples |-> SubSeq(washTrades, 1, Min2(5, Len(washTrades)))]
               ELSE [hit |-> FALSE]
    IN [a \in {x \in Range(accounts) : entry(x).hit} |-> entry(a)]

\* _calculateTemporalCorrelation: the quotient matches / total as the pair
\* of its terms (0 when total is 0); TIME_WINDOW is one hour
calculateTemporalCorrelation(timeline1, timeline2) ==
    LET total == Min2(Len(timeline1), Len(timeline2))
        matches == Cardinality({i \in 1..Len(timeline1) :
                       \E j \in 1..Len(timeline2) :
                           Abs(timeline1[i].timestamp - timeline2[j].timestamp) <= 1})
    IN IF total = 0 THEN [num |-> 0, den |-> 1] ELSE [num |-> matches, den |-> total]

(***************************************************************************)
(* calculateNetworkInfluence: three rounds of the simplified PageRank.     *)
(* With n accounts and P a common multiple of the out-degrees, the score   *)
(* of an account after round k is influenceNum / (n * 20^k * P^k), so the  *)
(* normalised score of the last loop is a ratio of two numerators.         *)
(***************************************************************************)
outDegree(g, a) == Len(getOutgoingTransactions(g, a))

RECURSIVE ProdSeq(_)
ProdSeq(s) == IF s = <<>> THEN 1 ELSE Head(s) * ProdSeq(Tail(s))

degreeMultiple(g) ==
    LET accounts == getAllAccounts(g)
    IN ProdSeq([i \in 1..Len(accounts) |-> Max2(outDegree(g, accounts[i]), 1)])

RECURSIVE Pow(_, _)
Pow(b, e) == IF e = 0 THEN 1 ELSE b * Pow(b, e - 1)

\* the numerators of the influence Map after round k
RECURSIVE influenceNum(_, _)
influenceNum(g, k) ==
    IF k = 0 THEN [a \in Range(getAllAccounts(g)) |-> 1]
    ELSE LET prev == influenceNum(g, k - 1)
             P == degreeMultiple(g)
         IN [a \in Range(getAllAccounts(g)) |->
               LET incoming == getIncomingTransactions(g, a)
                   shares == [i \in 1..Len(incoming) |->
                                prev[incoming[i].sender_id]
                                  * (P \div outDegree(g, incoming[i].sender_id))]
               IN 3 * Pow(20, k - 1) * Pow(P, k) + 17 * SumSeq(shares)]

\* one more decimal digit of a quotient <<digits so far, remainder>> by m
NextDigit(qr, m) == <<10 * qr[1] + (10 * qr[2]) \div m, (10 * qr[2]) % m>>

\* a / m rounded to thousandths, half up, by long division
Thousandths(a, m) ==
    LET q3 == NextDigit(NextDigit(NextDigit(<<a \div m, a % m>>, m), m), m)
    IN q3[1] + (IF 2 * q3[2] >= m THEN 1 ELSE 0)

\* influenceScore is normalizedScore.toFixed(3), kept in thousandths
calculateNetworkInfluence(g) ==
    LET accounts == getAllAccounts(g)
        final == influenceNum(g, 3)
        maxInfluence == MaxSeq([i \in 1..Len(accounts) |-> final[accounts[i]]])
    IN IF accounts = <<>> THEN <<>>
       ELSE [a \in {b \in Range(accounts) : 2 * final[b] > maxInfluence}
               |-> [influenceScore |-> Thousandths(final[a], maxInfluence)]]

(***************************************************************************)
(* detectSmurfingRingsLouvain (the definitions of the class that take      *)
(* effect: the later ones of each duplicated method name)                  *)
(***************************************************************************)
\* _getEdgeKey: the two ids in String order
getEdgeKey(nodeA, nodeB) == IF IdLess(nodeA, nodeB) THEN <<nodeA, nodeB>> ELSE <<nodeB, nodeA>>

\* _calculateVariance(values, mean) times n^2, with mean = sum / n
varianceNum(values) ==
    LET n == Len(values)
        sum == SumSeq(values)
    IN n * SumSeq([i \in 1..n |-> values[i] * values[i]]) - sum * sum

\* the keys of counterpartyWeights for one account, in insertion order
counterparties(g, a) ==
    LET outgoing == getOutgoingTransactions(g, a)
        incoming == getIncomingTransactions(g, a)
    IN Dedup([i \in 1..Len(outgoing) |-> outgoing[i].receiver_id]
             \o [i \in 1..Len(incoming) |-> incoming[i].sender_id])

\* data.amounts of counterpartyWeights for one account and one counterparty
pairAmounts(g, a, c) ==
    LET outgoing == getOutgoingTransactions(g, a)
        incoming == getIncomingTransactions(g, a)
        toC == {i \in 1..Len(outgoing) : outgoing[i].receiver_id = c}
        fromC == {i \in 1..Len(incoming) : incoming[i].sender_id = c}
        pick(txs, idx) == LET f[k \in 0..Len(txs)] ==
                                IF k = 0 THEN <<>>
                                ELSE IF k \in idx THEN Append(f[k - 1], txs[k].amount)
                                ELSE f[k - 1]
                          IN f[Len(txs)]
    IN pick(outgoing, toC) \o pick(incoming, fromC)

\* weight = data.count * consistencyBonus, the bonus being 2 when
\* amountVariance < avgAmount * 0.2, i.e. 5 * varianceNum < n * sum
edgeWeight(amounts) ==
    LET n == Len(amounts)
        consistencyBonus == IF 5 * varianceNum(amounts) < n * SumSeq(amounts) THEN 2 ELSE 1
    IN n * consistencyBonus

\* Set.add on a Set kept in insertion order
SetAdd(s, x) == IF Includes(s, x) THEN s ELSE Append(s, x)

\* the "Calculate edge weights" loop for account a over its counterparties from index k
RECURSIVE linkCounterparties(_, _, _, _)
linkCounterparties(g, wg, a, k) ==
    LET cps == counterparties(g, a)
    IN IF k > Len(cps) THEN wg
       ELSE LET c == cps[k]
                key == getEdgeKey(a, c)
                linked == [nodes |-> wg.nodes,
                           edges |-> (key :> edgeWeight(pairAmounts(g, a, c))) @@ wg.edges,
                           neighbors |-> [wg.neighbors EXCEPT
                                            ![a] = SetAdd(@, c),
                                            ![c] = SetAdd(@, a)]]
            IN linkCounterparties(g, linked, a, k + 1)

\* the "Build edges with weights" loop over the accounts from index k
RECURSIVE linkAccounts(_, _, _)
linkAccounts(g, wg, k) ==
    IF k > Len(wg.nodes) THEN wg
    ELSE linkAccounts(g, linkCounterparties(g, wg, wg.nodes[k], 1), k + 1)

buildWeightedGraph(g) ==
    linkAccounts(g, [nodes |-> getAllAccounts(g), edges |-> <<>>,
                     neighbors |-> [a \in Range(getAllAccounts(g)) |-> <<>>]], 1)

\* the bound of the while loop of _louvainClustering
maxIterations == 10

\* _calculateModularityGain, doubled: 2 * (internalEdges - externalEdges * 0.5)
calculateModularityGain(wg, node, fromCommunity, toCommunity, nodeToCommunity) ==
    LET neighbors == wg.neighbors[node]
        weightTo(community) ==
            SumSeq([i \in 1..Len(neighbors) |->
                      IF nodeToCommunity[neighbors[i]] = community
                      THEN wg.edges[getEdgeKey(node, neighbors[i])] ELSE 0])
    IN 2 * weightTo(toCommunity)
       - (IF fromCommunity = toCommunity THEN 0 ELSE weightTo(fromCommunity))

\* the keys of communityGains for a node, in insertion order
gainCommunities(wg, node, nodeToCommunity) ==
    LET neighbors == wg.neighbors[node]
        ids == [i \in 1..Len(neighbors) |-> nodeToCommunity[neighbors[i]]]
    IN Dedup(FilterIn(ids, Range(ids) \ {nodeToCommunity[node]}))

\* the "Move to community with best gain" loop: the first community, in
\* insertion order, whose gain is the largest, or the current one when no gain is positive
bestCommunity(wg, node, nodeToCommunity) ==
    LET current == nodeToCommunity[node]
        cands == gainCommunities(wg, node, nodeToCommunity)
        gain(i) == calculateModularityGain(wg, node, current, cands[i], nodeToCommunity)
        winners == {i \in 1..Len(cands) :
                      /\ gain(i) > 0
                      /\ \A j \in 1..Len(cands) : gain(j) <= gain(i)
                      /\ \A j \in 1..(i - 1) : gain(j) < gain(i)}
    IN IF winners = {} THEN current ELSE cands[CHOOSE i \in winners : TRUE]

\* a pass of the for loop that moves nodes without setting `improved`
RECURSIVE sweepWithoutFlag(_, _, _)
sweepWithoutFlag(wg, st, k) ==
    IF k > Len(wg.nodes) THEN st
    ELSE LET node == wg.nodes[k]
             current == st.nodeToCommunity[node]
             best == bestCommunity(wg, node, st.nodeToCommunity)
             moved == [nodeToCommunity |-> [st.nodeToCommunity EXCEPT ![node] = best],
                       communityNodes |-> [st.communityNodes EXCEPT
                                             ![current] = FilterIn(@, Range(@) \ {node}),
                                             ![best] = SetAdd(@, node)],
                       improved |-> st.improved]
         IN sweepWithoutFlag(wg, IF best # current THEN moved ELSE st, k + 1)

\* a visit that adds the node to its new community and leaves it in the old one
louvainVisitWithoutDelete(wg, st, k) ==
    LET node == wg.nodes[k]
        current == st.nodeToCommunity[node]
        best == bestCommunity(wg, node, st.nodeToCommunity)
    IN IF best # current
       THEN [nodeToCommunity |-> [st.nodeToCommunity EXCEPT ![node] = best],
             communityNodes |-> [st.communityNodes EXCEPT ![best] = SetAdd(@, node)],
             improved |-> TRUE]
       ELSE st

\* the body of the for loop over graph.nodes for the node at index k
louvainVisit(wg, st, k) ==
    LET node == wg.nodes[k]
        current == st.nodeToCommunity[node]
        best == bestCommunity(wg, node, st.nodeToCommunity)
        moved == [nodeToCommunity |-> [st.nodeToCommunity EXCEPT ![node] = best],
                  communityNodes |-> [st.communityNodes EXCEPT
                                        ![current] = FilterIn(@, Range(@) \ {node}),
                                        ![best] = SetAdd(@, node)],
                  improved |-> TRUE]
    IN IF best # current THEN moved ELSE st

\* one pass of the for loop over graph.nodes, from index k
RECURSIVE louvainSweep(_, _, _)
louvainSweep(wg, st, k) ==
    IF k > Len(wg.nodes) THEN st
    ELSE louvainSweep(wg, louvainVisit(wg, st, k), k + 1)

\* the while loop of _louvainClustering, entered with `iteration` passes done
RECURSIVE louvainLoop(_, _, _)
louvainLoop(wg, st, iteration) ==
    IF ~st.improved \/ iteration >= maxIterations THEN st
    ELSE louvainLoop(wg, louvainSweep(wg, [st EXCEPT !.improved = FALSE], 1), iteration + 1)

\* _louvainClustering before the loop: every node in a community of its own
louvainStart(wg) ==
    [nodeToCommunity |-> [a \in Range(wg.nodes) |-> IndexOf(wg.nodes, a)],
     communityNodes |-> [id \in 0..(Len(wg.nodes) - 1) |-> <<wg.nodes[id + 1]>>],
     improved |-> TRUE]

\* _louvainClustering when the loop has stopped
louvainFinal(wg) == louvainLoop(wg, louvainStart(wg), 0)

\* _louvainClustering: the communities array, ids 0..n-1 in Map order
louvainClustering(wg) ==
    LET n == Len(wg.nodes)
        final == louvainFinal(wg)
        collect[id \in -1..(n - 1)] ==
            IF id = -1 THEN <<>>
            ELSE IF Len(final.communityNodes[id]) > 0
                 THEN Append(collect[id - 1],
                             [id |-> id, members |-> final.communityNodes[id],
                              size |-> Len(final.communityNodes[id])])
            ELSE collect[id - 1]
    IN collect[n - 1]

(***************************************************************************)
(* Community analysis.  Ratios in [0, 1] are kept in millionths (Unit is   *)
(* 1.0), rounded down; the three-decimal strings toFixed(3) produces are   *)
(* kept in thousandths.                                                    *)
(***************************************************************************)
Unit == 1000 * 1000

\* min(a / b, 1) in millionths, for a >= 0 and b > 0
UnitRatio(a, b) ==
    IF a >= b THEN Unit
    ELSE LET r1 == (a * 1000) % b
         IN ((a * 1000) \div b) * 1000 + ((r1 * 1000) \div b)

\* floor of the square root, by bisection on [lo, hi]
RECURSIVE ISqrtIn(_, _, _)
ISqrtIn(n, lo, hi) ==
    IF lo >= hi THEN lo
    ELSE LET mid == (lo + hi + 1) \div 2
         IN IF mid * mid <= n THEN ISqrtIn(n, mid, hi) ELSE ISqrtIn(n, lo, mid - 1)

ISqrt(n) == ISqrtIn(n, 0, Min2(n, 46340))

\* the transactions between members that _analyzeCommunityStructure collects:
\* for each member in order, its outgoing transactions to members
RECURSIVE internalTxs(_, _, _)
internalTxs(g, members, k) ==
    IF k > Len(members) THEN <<>>
    ELSE LET outgoing == getOutgoingTransactions(g, members[k])
             kept[i \in 0..Len(outgoing)] ==
                 IF i = 0 THEN <<>>
                 ELSE IF Includes(members, outgoing[i].receiver_id)
                      THEN Append(kept[i - 1], outgoing[i])
                 ELSE kept[i - 1]
         IN kept[Len(outgoing)] \o internalTxs(g, members, k + 1)

\* _calculateTemporalClusteringCoefficient, in millionths; the square root is
\* exact when the interval variance is a perfect square and otherwise
\* truncated to three decimals
calculateTemporalClusteringCoefficient(timestamps) ==
    IF Len(timestamps) < 2 THEN 0
    ELSE LET sorted == SortNums(timestamps)
             intervals == [i \in 1..(Len(sorted) - 1) |-> sorted[i + 1] - sorted[i]]
             total == SumSeq(intervals)
             cv == (ISqrt(varianceNum(intervals) * Unit) * 1000) \div total
         IN IF total = 0 THEN Unit
            ELSE Max2(0, Min2(Unit, Unit - cv))

\* _analyzeCommunityStructure
analyzeCommunityStructure(g, community) ==
    LET members == community.members
        n == Len(members)
        txs == internalTxs(g, members, 1)
        internalEdges == Len(txs)
        inDegree(m) == Cardinality({i \in 1..Len(txs) : txs[i].receiver_id = m})
        amounts == Amts(txs)
    IN [internalEdges |-> internalEdges,
        maxPossibleEdges |-> n * (n - 1),
        centralNodes |-> FilterIn(members, {m \in Range(members) :
                                               n * inDegree(m) > 2 * internalEdges}),
        amountConsistency |->
            IF Len(amounts) > 0
            THEN Unit - UnitRatio(varianceNum(amounts), Len(amounts) * SumSeq(amounts))
            ELSE 0,
        temporalClustering |->
            calculateTemporalClusteringCoefficient([i \in 1..Len(txs) |-> txs[i].timestamp])]

\* analysis.density > num / den
densityAbove(analysis, num, den) ==
    /\ analysis.maxPossibleEdges > 0
    /\ den * analysis.internalEdges > num * analysis.maxPossibleEdges

\* _calculateSmurfingScore, in units of 1e-8 (100 * Unit is 1.0)
calculateSmurfingScore(analysis) ==
    LET density == IF analysis.maxPossibleEdges > 0
                   THEN UnitRatio(3 * analysis.internalEdges, 2 * analysis.maxPossibleEdges)
                   ELSE 0
        centralNodes == Min2(Len(analysis.centralNodes) * (Unit \div 2), Unit)
    IN 25 * density + 25 * centralNodes + 30 * analysis.amountConsistency
       + 20 * analysis.temporalClustering

\* _classifySmurfingPattern
classifySmurfingPattern(analysis) ==
    LET beneficiaryCount == Len(analysis.centralNodes)
    IN IF 100 * analysis.amountConsistency > 85 * Unit THEN "STRUCTURED_SMURFING"
       ELSE IF 10 * analysis.temporalClustering > 7 * Unit THEN "COORDINATED_BURST_SMURFING"
       ELSE IF beneficiaryCount = 1 /\ densityAbove(analysis, 1, 5)
            THEN "SINGLE_BENEFICIARY_SMURFING"
       ELSE IF beneficiaryCount > 1 /\ densityAbove(analysis, 3, 10)
            THEN "MULTI_BENEFICIARY_RING"
       ELSE "DISTRIBUTED_SMURFING_NETWORK"

\* smurfingRings.sort((a, b) => parseFloat(b.smurfingScore) - parseFloat(a.smurfingScore))
RECURSIVE SortByScoreDesc(_)
SortByScoreDesc(s) ==
    IF s = <<>> THEN <<>>
    ELSE LET init == SortByScoreDesc(SubSeq(s, 1, Len(s) - 1))
             x == s[Len(s)]
             k == Cardinality({i \in 1..Len(init) : init[i].smurfingScore >= x.smurfingScore})
         IN SubSeq(init, 1, k) \o <<x>> \o SubSeq(init, k + 1, Len(init))

\* the loop of the earlier definition of _analyzeCommunitiesForSmurfing, which
\* the later definition of the same name replaces: sizes 5..100, score above 0.6
RECURSIVE smurfingRingsFromFirstDefinition(_, _, _)
smurfingRingsFromFirstDefinition(g, communities, k) ==
    IF k > Len(communities) THEN <<>>
    ELSE LET community == communities[k]
             analysis == analyzeCommunityStructure(g, community)
             smurfingScore == calculateSmurfingScore(analysis)
             ring == [communityId |-> community.id,
                      members |-> community.members,
                      size |-> community.size,
                      smurfingScore |-> RoundDiv(smurfingScore, Unit \div 10),
                      centralBeneficiaries |-> analysis.centralNodes,
                      density |-> IF analysis.maxPossibleEdges > 0
                                  THEN RoundDiv(1000 * analysis.internalEdges,
                                                analysis.maxPossibleEdges)
                                  ELSE 0,
                      amountConsistency |-> RoundDiv(analysis.amountConsistency, 1000),
                      pattern |-> classifySmurfingPattern(analysis)]
             rest == smurfingRingsFromFirstDefinition(g, communities, k + 1)
         IN IF community.size < 5 \/ community.size > 100 THEN rest
            ELSE IF smurfingScore > 60 * Unit THEN <<ring>> \o rest
            ELSE rest

\* the loop of _analyzeCommunitiesForSmurfing over the communities from index k
RECURSIVE smurfingRingsFrom(_, _, _)
smurfingRingsFrom(g, communities, k) ==
    IF k > Len(communities) THEN <<>>
    ELSE LET community == communities[k]
             analysis == analyzeCommunityStructure(g, community)
             smurfingScore == calculateSmurfingScore(analysis)
             ring == [communityId |-> community.id,
                      members |-> community.members,
                      size |-> community.size,
                      smurfingScore |-> RoundDiv(smurfingScore, Unit \div 10),
                      centralBeneficiaries |-> analysis.centralNodes,
                      density |-> IF analysis.maxPossibleEdges > 0
                                  THEN RoundDiv(1000 * analysis.internalEdges,
                                                analysis.maxPossibleEdges)
                                  ELSE 0,
                      amountConsistency |-> RoundDiv(analysis.amountConsistency, 1000),
                      pattern |-> classifySmurfingPattern(analysis)]
             rest == smurfingRingsFrom(g, communities, k + 1)
         IN IF community.size < 3 \/ community.size > 100 THEN rest
            ELSE IF smurfingScore > 25 * Unit THEN <<ring>> \o rest
            ELSE rest

analyzeCommunitiesForSmurfing(g, communities) ==
    SortByScoreDesc(smurfingRingsFrom(g, communities, 1))

detectSmurfingRingsLouvain(g) ==
    analyzeCommunitiesForSmurfing(g, louvainClustering(buildWeightedGraph(g)))

(***************************************************************************)
(* ScoreCalculatorEnhanced.  A signal is what one detector reports for the *)
(* account: [hit |-> FALSE] when the detector's Map has no entry for it,   *)
(* otherwise the fields the scorer reads.  Points are in hundredths.       *)
(***************************************************************************)
NoHit == [hit |-> FALSE]

Pts(points) == 100 * points

\* the number of signals calculateSuspicionScore adds up before the penalty
NumScorers == 25

\* the pattern labels of _getDetectedPatternsForAccount, in the order pushed;
\* the Louvain entry stands for its two labels
PatternLabels ==
    <<"cycle", "fan_out", "fan_in", "shell_account", "passthrough", "structuring",
      "threshold_avoidance", "velocity_anomaly", "amount_anomaly", "unusual_timing",
      "burst_activity", "dormancy_reactivation", "amount_splitting", "frequency_anomaly",
      "network_influence", "round_trip", "layering", "low_diversity",
      "amount_progression", "temporal_clustering", "money_laundering_chain",
      "coordinated_behavior", "smurfing_pattern", "wash_trading", "louvain_smurfing_ring">>

\* _scoreCycles .. _scoreThresholdAvoidance
scoreOriginal(k, e) ==
    CASE k = 1 -> (CASE e.minLength = 3 -> Pts(35) [] e.minLength = 4 -> Pts(28)
                     [] e.minLength = 5 -> Pts(22) [] OTHER -> 0)
      [] k = 2 -> Pts(Min2(18, 12 + ((6 * (e.receiver_count - 15)) \div 10)))
      [] k = 3 -> Pts(Min2(18, 12 + ((6 * (e.sender_count - 15)) \div 10)))
      [] k = 4 -> Pts(12)
      [] k = 5 -> (IF e.length >= 10 THEN Pts(8) ELSE IF e.length >= 5 THEN Pts(6) ELSE Pts(4))
      [] k = 6 -> (IF 10 * e.roundCount >= 9 * e.total_transactions THEN Pts(8)
                   ELSE IF 10 * e.roundCount >= 8 * e.total_transactions THEN Pts(6)
                   ELSE Pts(5))
      [] k = 7 -> (IF 10 * e.nearThreshold >= 8 * e.transaction_count THEN Pts(8)
                   ELSE IF 10 * e.nearThreshold >= 6 * e.transaction_count THEN Pts(6)
                   ELSE Pts(5))

\* _scoreVelocityAnomaly .. _scoreNetworkInfluence; two-decimal strings are in
\* hundredths, influenceScore in thousandths
scoreEnhanced(k, e) ==
    CASE k = 8 -> (IF e.velocity > 1500 THEN Pts(10) ELSE IF e.velocity > 1000 THEN Pts(7)
                   ELSE Pts(4))
      [] k = 9 -> (IF e.outlierRatio > 70 THEN Pts(8) ELSE IF e.outlierRatio > 50 THEN Pts(6)
                   ELSE Pts(4))
      [] k = 10 -> Pts(Min2(7, (IF e.nightRatio > 70 THEN 5
                                ELSE IF e.nightRatio > 50 THEN 3 ELSE 0)
                               + (IF e.weekendRatio > 80 THEN 3
                                  ELSE IF e.weekendRatio > 70 THEN 2 ELSE 0)))
      [] k = 11 -> (IF e.maxBurstSize >= 10 THEN Pts(8)
                    ELSE IF e.maxBurstSize >= 5 THEN Pts(6) ELSE Pts(4))
      [] k = 12 -> (IF e.dormancyDays > 180 /\ e.txsAfterReactivation > 10 THEN Pts(10)
                    ELSE IF e.dormancyDays > 90 /\ e.txsAfterReactivation > 5 THEN Pts(7)
                    ELSE IF e.dormancyDays > 30 THEN Pts(4) ELSE 0)
      [] k = 13 -> (IF e.splitCount >= 10 THEN Pts(8)
                    ELSE IF e.splitCount >= 5 THEN Pts(6) ELSE Pts(4))
      [] k = 14 -> (IF e.txsPerDay > 5000 THEN Pts(8)
                    ELSE IF e.txsPerDay > 2000 THEN Pts(6) ELSE Pts(4))
      [] k = 15 -> (IF e.influenceScore > 800 THEN Pts(6)
                    ELSE IF e.influenceScore > 600 THEN Pts(4) ELSE Pts(2))

\* _scoreRoundTrips .. _scoreTemporalClustering
scoreAdvanced(k, e) ==
    CASE k = 16 -> (IF e.roundTripCount >= 5 THEN Pts(8)
                    ELSE IF e.roundTripCount >= 3 THEN Pts(5) ELSE Pts(3))
      [] k = 17 -> Pts(Min2(7, (IF e.maxLayerDepth >= 6 THEN 5
                                ELSE IF e.maxLayerDepth >= 5 THEN 3 ELSE 2)
                               + (IF e.chainComplexity > 50 THEN 2 ELSE 0)))
      [] k = 18 -> Pts(Min2(6, (IF e.diversityRatio < 20 THEN 4
                                ELSE IF e.diversityRatio < 30 THEN 2 ELSE 0)
                               + (IF e.topCounterpartyConcentration > 70 THEN 2 ELSE 0)))
      [] k = 19 -> (IF e.pattern = "escalating" /\ e.multiplier > 1000 THEN Pts(6)
                    ELSE IF e.pattern = "escalating" /\ e.multiplier > 500 THEN Pts(4)
                    ELSE IF e.trendStrength > 80 THEN Pts(3) ELSE Pts(2))
      [] k = 20 -> (IF e.pattern = "single-hour" /\ e.peakConcentration > 70 THEN Pts(5)
                    ELSE IF e.peakConcentration > 60 THEN Pts(3) ELSE Pts(2))

\* patternBonuses of _scoreLouvainSmurfingRings
patternBonus(pattern) ==
    CASE pattern = "STRUCTURED_SMURFING" -> 5
      [] pattern = "COORDINATED_BURST_SMURFING" -> 4
      [] pattern = "SINGLE_BENEFICIARY_SMURFING" -> 3
      [] pattern = "MULTI_BENEFICIARY_RING" -> 4
      [] pattern = "DISTRIBUTED_SMURFING_NETWORK" -> 2
      [] OTHER -> 0

\* _scoreMoneyLaunderingChains .. _scoreLouvainSmurfingRings; smurfingScore,
\* density and amountConsistency are three-decimal strings, in thousandths
scoreDeep(k, e) ==
    CASE k = 21 -> Pts(Min2(15, (IF e.longestChainLength >= 7 THEN 12
                                 ELSE IF e.longestChainLength >= 6 THEN 8
                                 ELSE IF e.longestChainLength >= 5 THEN 5 ELSE 0)
                                + (IF e.chainCount >= 10 THEN 3 ELSE 0)))
      [] k = 22 -> (IF e.correlatedCount >= 5 THEN Pts(10)
                    ELSE IF e.correlatedCount >= 3 THEN Pts(7) ELSE Pts(5))
      [] k = 23 -> (IF e.clusterCount >= 5 THEN Pts(10)
                    ELSE IF e.clusterCount >= 3 THEN Pts(7) ELSE Pts(5))
      [] k = 24 -> (IF e.washTradeCount >= 10 THEN Pts(10)
                    ELSE IF e.washTradeCount >= 5 THEN Pts(7) ELSE Pts(5))
      [] k = 25 -> Min2(Pts(40),
                        2 * e.smurfingScore
                        + (IF e.isBeneficiary THEN Pts(15) ELSE Pts(10))
                        + Pts(patternBonus(e.pattern))
                        + (IF e.density > 500 THEN Pts(3)
                           ELSE IF e.density > 300 THEN Pts(2) ELSE 0)
                        + (IF e.amountConsistency > 800 THEN Pts(3) ELSE 0))

\* the k-th term calculateSuspicionScore adds to score
scorerPoints(k, e) ==
    IF ~e.hit THEN 0
    ELSE IF k <= 7 THEN scoreOriginal(k, e)
    ELSE IF k <= 15 THEN scoreEnhanced(k, e)
    ELSE IF k <= 20 THEN scoreAdvanced(k, e)
    ELSE scoreDeep(k, e)

\* `louvain_${memberOfRing.pattern.toLowerCase()}`
louvainLabel(pattern) ==
    CASE pattern = "STRUCTURED_SMURFING" -> "louvain_structured_smurfing"
      [] pattern = "COORDINATED_BURST_SMURFING" -> "louvain_coordinated_burst_smurfing"
      [] pattern = "SINGLE_BENEFICIARY_SMURFING" -> "louvain_single_beneficiary_smurfing"
      [] pattern = "MULTI_BENEFICIARY_RING" -> "louvain_multi_beneficiary_ring"
      [] OTHER -> "louvain_distributed_smurfing_network"

\* the labels the k-th detector contributes in _getDetectedPatternsForAccount
labelsOf(k, e) ==
    IF ~e.hit THEN <<>>
    ELSE IF k = 25 THEN <<"louvain_smurfing_ring", louvainLabel(e.pattern)>>
    ELSE <<PatternLabels[k]>>

\* Math.max(0, score): the lower half of the final clamp
clampBelow(score) == Max2(0, score)

\* Math.max(0, Math.min(100, score))
clampScore(score) == Max2(0, Min2(Pts(100), score))

\* the sum of the terms 1..k for the signals sig of one account
RECURSIVE sumPoints(_, _)
sumPoints(sig, k) == IF k = 0 THEN 0 ELSE sumPoints(sig, k - 1) + scorerPoints(k, sig[k])

\* calculateSuspicionScore for an account with signals sig and legitimacy penalty
calculateSuspicionScore(sig, penalty) == clampScore(sumPoints(sig, NumScorers) + penalty)

\* _getDetectedPatternsForAccount
RECURSIVE getDetectedPatterns(_, _)
getDetectedPatterns(sig, k) ==
    IF k = 0 THEN <<>> ELSE getDetectedPatterns(sig, k - 1) \o labelsOf(k, sig[k])

\* isSuspicious with every threshold requiring only the score
isSuspiciousScoreOnly(score, nPatterns, hasCycle) == score >= Pts(50)

\* isSuspicious(score, patterns), for patterns.length and patterns.includes('cycle')
isSuspicious(score, nPatterns, hasCycle) ==
    \/ score >= Pts(80)
    \/ score >= Pts(70) /\ nPatterns >= 3
    \/ score >= Pts(60) /\ hasCycle /\ nPatterns >= 3
    \/ score >= Pts(50) /\ hasCycle /\ nPatterns >= 4

(***************************************************************************)
(* _calculateLegitimacyPenalty, branch by branch, in whole points.         *)
(* Intervals are in hours: a day is 24, a squared day 576.                 *)
(***************************************************************************)
Distinct(s) == Cardinality(Range(s))

\* the gaps between consecutive transactions of a list sorted by time
intervalsOf(txs) ==
    LET sorted == SortByTs(txs)
    IN [i \in 1..(Len(sorted) - 1) |-> sorted[i + 1].timestamp - sorted[i].timestamp]

payrollPenalty(outgoing) ==
    IF Len(outgoing) < 10 THEN 0
    ELSE LET intervals == intervalsOf(outgoing)
             isRegular == /\ SumSeq(intervals) >= 6 * 24 * Len(intervals)
                          /\ SumSeq(intervals) <= 31 * 24 * Len(intervals)
         IN IF Distinct(Amts(outgoing)) <= 3 /\ isRegular THEN -25
            ELSE IF Distinct(Amts(outgoing)) <= 3 THEN -15
            ELSE 0

merchantPenalty(incoming) ==
    IF Len(incoming) < 20 THEN 0
    ELSE LET small == SumSeq(Amts(incoming)) < 100 * Len(incoming)
             senders == Distinct([i \in 1..Len(incoming) |-> incoming[i].sender_id])
         IN IF small /\ 2 * senders > Len(incoming) THEN -20
            ELSE IF small THEN -10
            ELSE 0

utilityPenalty(outgoing) ==
    IF Len(outgoing) < 5 THEN 0
    ELSE IF Distinct([i \in 1..Len(outgoing) |-> outgoing[i].receiver_id]) # 1 THEN 0
    ELSE LET intervals == intervalsOf(outgoing)
         IN IF varianceNum(intervals) < 100 * 576 * Len(intervals) * Len(intervals)
            THEN -15 ELSE -8

businessPenalty(incoming, outgoing) ==
    IF Len(incoming) + Len(outgoing) <= 50 THEN 0
    ELSE LET incomingTotal == SumSeq(Amts(incoming))
             outgoingTotal == SumSeq(Amts(outgoing))
             unique == Cardinality({incoming[i].sender_id : i \in 1..Len(incoming)}
                                   \cup {outgoing[i].receiver_id : i \in 1..Len(outgoing)})
         IN IF /\ outgoingTotal > 0
               /\ 2 * incomingTotal >= outgoingTotal
               /\ incomingTotal <= 2 * outgoingTotal
               /\ 10 * unique > 3 * (Len(incoming) + Len(outgoing))
            THEN -20 ELSE 0

savingsPenalty(outgoing) ==
    IF Len(outgoing) < 3 \/ Len(outgoing) > 20 THEN 0
    ELSE IF Distinct([i \in 1..Len(outgoing) |-> outgoing[i].receiver_id]) # 1 THEN 0
    ELSE LET sum == SumSeq(Amts(outgoing))
         IN IF 10 * varianceNum(Amts(outgoing)) < sum * sum THEN -15 ELSE 0

calculateLegitimacyPenalty(g, a) ==
    LET incoming == getIncomingTransactions(g, a)
        outgoing == getOutgoingTransactions(g, a)
    IN Pts(payrollPenalty(outgoing) + merchantPenalty(incoming) + utilityPenalty(outgoing)
           + businessPenalty(incoming, outgoing) + savingsPenalty(outgoing))

(***************************************************************************)
(* analyzeLayeringDepth and detectMoneyLaunderingChains                    *)
(***************************************************************************)
\* breadth-first search from every account with an outgoing transfer, six
\* levels deep; an account is flagged when the farthest level reached is 4+
analyzeLayeringDepth(g) ==
    LET RECURSIVE bfs(_, _, _)
        bfs(frontier, visited, depth) ==
            IF frontier = {} THEN [maxLayerDepth |-> depth - 1,
                                   chainComplexity |-> Cardinality(visited)]
            ELSE LET seen == visited \cup frontier
                     reached == IF depth < 6
                                THEN UNION {{g.out[a][i].receiver_id : i \in 1..Len(g.out[a])} :
                                            a \in frontier}
                                ELSE {}
                 IN bfs(reached \ seen, seen, depth + 1)
        layerOf(a) == bfs({a}, {}, 0)
        flagged == {a \in Range(getAllAccounts(g)) :
                      g.out[a] # <<>> /\ layerOf(a).maxLayerDepth >= 4}
    IN [a \in flagged |-> layerOf(a)]

MAX_DEPTH == 8

MIN_CHAIN_LENGTH == 5

\* the depth-first walk over outgoing transfers that records every path of
\* MIN_CHAIN_LENGTH or more hops; the entry holds their number and the
\* length of the longest
detectMoneyLaunderingChains(g) ==
    LET RECURSIVE chainDfs(_, _, _), chainEdges(_, _, _, _)
        chainDfs(current, depth, visited) ==
            IF depth >= MAX_DEPTH \/ current \in visited THEN <<>>
            ELSE chainEdges(current, depth, visited \cup {current}, 1)
        chainEdges(current, depth, visited, i) ==
            IF i > Len(g.out[current]) THEN <<>>
            ELSE (IF depth + 1 >= MIN_CHAIN_LENGTH THEN <<depth + 1>> ELSE <<>>)
                 \o (IF depth < MAX_DEPTH - 1
                     THEN chainDfs(g.out[current][i].receiver_id, depth + 1, visited)
                     ELSE <<>>)
                 \o chainEdges(current, depth, visited, i + 1)
        paths(a) == chainDfs(a, 0, {})
        flagged == {a \in Range(getAllAccounts(g)) : g.out[a] # <<>> /\ paths(a) # <<>>}
    IN [a \in flagged |-> [chainCount |-> Len(paths(a)),
                           longestChainLength |-> MaxSeq(paths(a))]]

\* a system that runs the deep chain analysis whatever its options say
alwaysDeepChainAnalysis == TRUE

\* this.options?.enableDeepChainAnalysis, as the conditional reads it
enableDeepChainAnalysis == options = "true"

(***************************************************************************)
(* detectAllPatterns.  Every file within the bounds has at most eight      *)
(* transactions, all on one Monday between 09:00 and 17:00 and, where an   *)
(* account sends five or more, all of one amount: the detectors guarded by *)
(* a minimum of ten or more transactions (fan-out, fan-in, velocity,       *)
(* burst, frequency, diversity, temporal clustering, coordination,         *)
(* smurfing clusters), by five incoming and five outgoing (wash trading),  *)
(* by night or weekend hours (timing), by a gap of thirty days (dormancy)  *)
(* or by a trend of amounts (progression) return empty Maps.               *)
(***************************************************************************)
NoPatterns ==
    [cycles |-> <<>>, fanOut |-> <<>>, frequency |-> <<>>,
     shellAccounts |-> {}, passthrough |-> <<>>, structuring |-> <<>>,
     thresholdAvoidance |-> <<>>, amountAnomalies |-> <<>>, amountSplitting |-> <<>>,
     networkInfluence |-> <<>>, roundTripTransactions |-> <<>>, layering |-> <<>>,
     moneyLaunderingChains |-> <<>>, smurfingRingsLouvain |-> <<>>]

detectAllPatterns(g) ==
    LET sorted == sortOutgoingInPlace(g)
    IN [cycles |-> detectCyclesEfficient(g),
        fanOut |-> detectFanOutPatterns(g),
        frequency |-> detectFrequencyAnomalies(sorted),
        shellAccounts |-> detectShellAccounts(g),
        passthrough |-> detectPassthroughBehavior(g),
        structuring |-> detectStructuring(g),
        thresholdAvoidance |-> detectThresholdAvoidance(g),
        amountAnomalies |-> detectAmountAnomalies(g),
        amountSplitting |-> detectAmountSplitting(g),
        networkInfluence |-> calculateNetworkInfluence(sorted),
        roundTripTransactions |-> detectRoundTripTransactionsOptimized(sorted),
        layering |-> analyzeLayeringDepth(sorted),
        moneyLaunderingChains |-> IF enableDeepChainAnalysis
                                  THEN detectMoneyLaunderingChains(sorted)
                                  ELSE <<>>,
        smurfingRingsLouvain |-> detectSmurfingRingsLouvain(sorted)]

\* Map.has(accountId) ? Map.get(accountId) : no entry
entryOf(map, a) == IF a \in DOMAIN map THEN [hit |-> TRUE] @@ map[a] ELSE NoHit

\* what _scoreCycles reads: the shortest cycle through the account
cycleSignal(cycles, a) ==
    LET lengths == {cycles[i].length : i \in {j \in 1..Len(cycles) : Includes(cycles[j].accounts, a)}}
    IN IF lengths = {} THEN NoHit
       ELSE [hit |-> TRUE, minLength |-> CHOOSE l \in lengths : \A m \in lengths : l <= m]

\* what _scoreLouvainSmurfingRings reads: the first ring that lists the account
louvainSignal(rings, a) ==
    LET idx == {i \in 1..Len(rings) : Includes(rings[i].members, a)}
    IN IF idx = {} THEN NoHit
       ELSE LET memberRing == rings[CHOOSE i \in idx : \A j \in idx : i <= j]
            IN [hit |-> TRUE,
                smurfingScore |-> memberRing.smurfingScore,
                isBeneficiary |-> Includes(memberRing.centralBeneficiaries, a),
                pattern |-> memberRing.pattern,
                density |-> memberRing.density,
                amountConsistency |-> memberRing.amountConsistency]

\* the 25 signals of one account, in the order calculateSuspicionScore reads them
signalsOf(p, a) ==
    [k \in 1..NumScorers |->
        CASE k = 1 -> cycleSignal(p.cycles, a)
          [] k = 2 -> entryOf(p.fanOut, a)
          [] k = 4 -> [hit |-> a \in p.shellAccounts]
          [] k = 5 -> entryOf(p.passthrough, a)
          [] k = 6 -> entryOf(p.structuring, a)
          [] k = 7 -> entryOf(p.thresholdAvoidance, a)
          [] k = 9 -> entryOf(p.amountAnomalies, a)
          [] k = 13 -> entryOf(p.amountSplitting, a)
          [] k = 14 -> entryOf(p.frequency, a)
          [] k = 15 -> entryOf(p.networkInfluence, a)
          [] k = 16 -> entryOf(p.roundTripTransactions, a)
          [] k = 17 -> entryOf(p.layering, a)
          [] k = 21 -> entryOf(p.moneyLaunderingChains, a)
          [] k = 25 -> louvainSignal(p.smurfingRingsLouvain, a)
          [] OTHER -> NoHit]

\* the loop of analyze over the accounts from index k: accountScores.set and
\* the push of a SuspiciousAccount when isSuspicious
RECURSIVE scoreAccounts(_, _, _, _)
scoreAccounts(g, p, accounts, k) ==
    IF k = 0 THEN [accountScores |-> <<>>, suspiciousAccounts |-> <<>>]
    ELSE LET before == scoreAccounts(g, p, accounts, k - 1)
             accountId == accounts[k]
             sig == signalsOf(p, accountId)
             score == calculateSuspicionScore(sig, calculateLegitimacyPenalty(g, accountId))
             detected == getDetectedPatterns(sig, NumScorers)
         IN [accountScores |-> (accountId :> score) @@ before.accountScores,
             suspiciousAccounts |->
                IF isSuspicious(score, Len(detected), Includes(detected, "cycle"))
                THEN Append(before.suspiciousAccounts,
                            [account_id |-> accountId, suspicion_score |-> score,
                             detected_patterns |-> detected, ring_id |-> Null])
                ELSE before.suspiciousAccounts]

(***************************************************************************)
(* Ring identification: identifyFraudRings, identifyFraudRingsEnhanced     *)
(***************************************************************************)
\* String(n): the decimal digits of a positive counter
RECURSIVE Digits(_)
Digits(n) == IF n < 10 THEN <<n>> ELSE Append(Digits(n \div 10), n % 10)

\* String.prototype.padStart(3, '0') on a digit string
padStart3(d) == IF Len(d) >= 3 THEN d ELSE [i \in 1..(3 - Len(d)) |-> 0] \o d

\* an id that ignores the counter
ringIdFirst(ringIdCounter) == <<"RING-", 0, 0, 1>>

\* `RING-${String(ringIdCounter).padStart(3, '0')}`
ringId(ringIdCounter) == <<"RING-">> \o padStart3(Digits(ringIdCounter))

\* the suspicious counterparties of one account in the order the two loops of
\* identifyFraudRings meet them: receivers of outgoing, then senders of incoming
suspiciousCounterparties(g, a, suspiciousSet) ==
    LET outgoing == getOutgoingTransactions(g, a)
        incoming == getIncomingTransactions(g, a)
    IN FilterIn([i \in 1..Len(outgoing) |-> outgoing[i].receiver_id]
                \o [i \in 1..Len(incoming) |-> incoming[i].sender_id], suspiciousSet)

\* adjacency.get(a).add(c); adjacency.get(c).add(a) for the counterparties from index i
RECURSIVE linkSuspicious(_, _, _, _)
linkSuspicious(adjacency, a, cps, i) ==
    IF i > Len(cps) THEN adjacency
    ELSE linkSuspicious([adjacency EXCEPT ![a] = SetAdd(@, cps[i]),
                                          ![cps[i]] = SetAdd(@, a)], a, cps, i + 1)

\* the adjacency Map after the accounts 1..k of suspiciousAccounts
RECURSIVE buildAdjacency(_, _, _)
buildAdjacency(g, suspicious, k) ==
    IF k = 0 THEN [a \in Range(suspicious) |-> <<>>]
    ELSE linkSuspicious(buildAdjacency(g, suspicious, k - 1), suspicious[k],
                        suspiciousCounterparties(g, suspicious[k], Range(suspicious)), 1)

\* a search that takes the neighbours of the first account only
RECURSIVE bfsFirstOnly(_, _, _, _)
bfsFirstOnly(adjacency, queue, visited, component) ==
    IF queue = <<>> THEN [component |-> component, visited |-> visited]
    ELSE LET current == Head(queue)
             fresh == IF component = <<>>
                      THEN FilterIn(adjacency[current], Range(adjacency[current]) \ visited)
                      ELSE <<>>
         IN bfsFirstOnly(adjacency, Tail(queue) \o fresh, visited \cup Range(fresh),
                         Append(component, current))

\* the while loop of the breadth-first search
RECURSIVE bfsComponent(_, _, _, _)
bfsComponent(adjacency, queue, visited, component) ==
    IF queue = <<>> THEN [component |-> component, visited |-> visited]
    ELSE LET current == Head(queue)
             fresh == FilterIn(adjacency[current], Range(adjacency[current]) \ visited)
         IN bfsComponent(adjacency, Tail(queue) \o fresh, visited \cup Range(fresh),
                         Append(component, current))

\* _classifyRingPattern
classifyRingPattern(g, members) ==
    LET totalTxs == SumSeq([i \in 1..Len(members) |->
                              Len(getIncomingTransactions(g, members[i]))
                              + Len(getOutgoingTransactions(g, members[i]))])
    IN IF totalTxs <= 3 * Len(members) THEN "shell_chain"
       ELSE IF totalTxs > 20 * Len(members) THEN "smurfing"
       ELSE IF Len(members) = 3 THEN "cycle"
       ELSE "hybrid"

\* the loop of identifyFraudRings over suspiciousAccounts from index k
RECURSIVE ringsFrom(_, _, _, _, _, _)
ringsFrom(g, suspicious, adjacency, k, visited, rings) ==
    IF k > Len(suspicious) THEN rings
    ELSE IF suspicious[k] \in visited
         THEN ringsFrom(g, suspicious, adjacency, k + 1, visited, rings)
    ELSE LET found == bfsComponent(adjacency, <<suspicious[k]>>,
                                   visited \cup {suspicious[k]}, <<>>)
             ring == [ring_id |-> ringId(Len(rings) + 1),
                      member_accounts |-> SortIds(found.component),
                      pattern_type |-> classifyRingPattern(g, found.component),
                      detection_method |-> "connectivity_analysis"]
         IN ringsFrom(g, suspicious, adjacency, k + 1, found.visited, Append(rings, ring))

identifyFraudRings(g, suspicious) ==
    IF Len(suspicious) = 0 THEN <<>>
    ELSE ringsFrom(g, suspicious, buildAdjacency(g, suspicious, Len(suspicious)), 1, {}, <<>>)

\* _mapLouvainPatternType
mapLouvainPatternType(louvainPattern) ==
    IF louvainPattern = "DISTRIBUTED_SMURFING_NETWORK" THEN "hybrid" ELSE "smurfing"

\* a comparison that finds no Louvain ring to be an existing ring
overlapsNever(louvainRing, existingRing) == FALSE

\* overlapRatio > 0.7 for one Louvain ring and one connectivity ring
overlapsRing(louvainRing, existingRing) ==
    LET overlap == Len(FilterIn(louvainRing.members, Range(existingRing.member_accounts)))
    IN 10 * overlap > 7 * Min2(Len(louvainRing.members), Len(existingRing.member_accounts))

\* a loop that numbers a Louvain ring by its position among the Louvain rings
RECURSIVE addLouvainRingsByIndex(_, _, _, _)
addLouvainRingsByIndex(connectivityRings, louvainRings, k, allRings) ==
    IF k > Len(louvainRings) THEN allRings
    ELSE LET louvainRing == louvainRings[k]
             isNewRing == ~\E i \in 1..Len(connectivityRings) :
                              overlapsRing(louvainRing, connectivityRings[i])
             ring == [ring_id |-> ringId(Len(connectivityRings) + k),
                      member_accounts |-> SortIds(louvainRing.members),
                      pattern_type |-> mapLouvainPatternType(louvainRing.pattern),
                      detection_method |-> "louvain_community_detection"]
         IN addLouvainRingsByIndex(connectivityRings, louvainRings, k + 1,
                                   IF isNewRing THEN Append(allRings, ring) ELSE allRings)

\* the loop of identifyFraudRingsEnhanced over louvainRings from index k
RECURSIVE addLouvainRings(_, _, _, _)
addLouvainRings(connectivityRings, louvainRings, k, allRings) ==
    IF k > Len(louvainRings) THEN allRings
    ELSE LET louvainRing == louvainRings[k]
             isNewRing == ~\E i \in 1..Len(connectivityRings) :
                              overlapsRing(louvainRing, connectivityRings[i])
             ring == [ring_id |-> ringId(Len(allRings) + 1),
                      member_accounts |-> SortIds(louvainRing.members),
                      pattern_type |-> mapLouvainPatternType(louvainRing.pattern),
                      detection_method |-> "louvain_community_detection"]
         IN addLouvainRings(connectivityRings, louvainRings, k + 1,
                            IF isNewRing THEN Append(allRings, ring) ELSE allRings)

identifyFraudRingsEnhanced(g, suspicious, louvainRings) ==
    LET connectivityRings == identifyFraudRings(g, suspicious)
    IN addLouvainRings(connectivityRings, louvainRings, 1, connectivityRings)

(***************************************************************************)
(* Ring risk, FraudRing assembly and JSONFormatter.format                  *)
(***************************************************************************)
\* calculateRingRiskScore: (0.6 * maxScore) + (0.4 * avgScore) * sizeMultiplier
\* as the fraction num / den of a point, member scores being in hundredths:
\* avgScore = sum / n and sizeMultiplier = (10 + min(n - 2, 8)) / 10
calculateRingRiskScore(ring, memberScores) ==
    LET members == ring.member_accounts
        n == Len(members)
        scores == [i \in 1..n |-> IF members[i] \in DOMAIN memberScores
                                  THEN memberScores[members[i]] ELSE 0]
        maxScore == MaxSeq(scores)
        sizeTenths == 10 + Min2(n - 2, 8)
    IN [num |-> 60 * n * maxScore + 4 * SumSeq(scores) * sizeTenths,
        den |-> 100 * 100 * n]

\* the body of the loop of analyze over rings: the FraudRing pushed for one ring
newFraudRing(ring, memberScores) ==
    [ring_id |-> ring.ring_id, member_accounts |-> ring.member_accounts,
     pattern_type |-> ring.pattern_type,
     risk_score |-> calculateRingRiskScore(ring, memberScores),
     detection_method |-> ring.detection_method]

\* an assignment that keeps the first ring that lists the account
assignFirstRingIds(suspicious, rings) ==
    [i \in 1..Len(suspicious) |->
        LET mine == {k \in 1..Len(rings) :
                       Includes(rings[k].member_accounts, suspicious[i].account_id)}
        IN IF mine = {} THEN suspicious[i]
           ELSE [suspicious[i] EXCEPT
                   !.ring_id = rings[CHOOSE k \in mine : \A j \in mine : k <= j].ring_id]]

\* "Assign ring ID to member accounts" after all rings: the last ring that
\* lists the account, or the ring_id the account already has
assignRingIds(suspicious, rings) ==
    [i \in 1..Len(suspicious) |->
        LET mine == {k \in 1..Len(rings) :
                       Includes(rings[k].member_accounts, suspicious[i].account_id)}
        IN IF mine = {} THEN suspicious[i]
           ELSE [suspicious[i] EXCEPT
                   !.ring_id = rings[CHOOSE k \in mine : \A j \in mine : j <= k].ring_id]]

\* [...suspiciousAccounts].sort((a, b) => b.suspicion_score - a.suspicion_score)
RECURSIVE sortedAccounts(_)
sortedAccounts(s) ==
    IF s = <<>> THEN <<>>
    ELSE LET init == sortedAccounts(SubSeq(s, 1, Len(s) - 1))
             x == s[Len(s)]
             k == Cardinality({i \in 1..Len(init) :
                                 init[i].suspicion_score >= x.suspicion_score})
         IN SubSeq(init, 1, k) \o <<x>> \o SubSeq(init, k + 1, Len(init))

\* parseFloat(x.toFixed(1)) of a score in hundredths, in tenths of a point
toFixed1(score) == RoundDiv(score, 10)

NoReport == [kind |-> "none"]

\* JSONFormatter.format: the object it serialises, scores in tenths of a point
format(suspicious, rings, summary) ==
    [kind |-> "report",
     suspicious_accounts |->
        [i \in 1..Len(suspicious) |->
            [account_id |-> sortedAccounts(suspicious)[i].account_id,
             suspicion_score |-> toFixed1(sortedAccounts(suspicious)[i].suspicion_score),
             detected_patterns |-> sortedAccounts(suspicious)[i].detected_patterns,
             ring_id |-> sortedAccounts(suspicious)[i].ring_id]],
     fraud_rings |->
        [i \in 1..Len(rings) |->
            [ring_id |-> rings[i].ring_id,
             member_accounts |-> rings[i].member_accounts,
             pattern_type |-> rings[i].pattern_type,
             risk_score |-> RoundDiv(10 * rings[i].risk_score.num, rings[i].risk_score.den),
             detection_method |-> rings[i].detection_method]],
     summary |-> summary]

(***************************************************************************)
(* FraudDetectionSystemOptimized.analyze, one action per stage between     *)
(* two progress reports                                                    *)
(***************************************************************************)
NoAcct == [step |-> 0]

Idle ==
    /\ graph = NoGraph
    /\ patterns = NoPatterns
    /\ accountScores = <<>>
    /\ suspiciousAccounts = <<>>
    /\ fraudRings = <<>>
    /\ report = NoReport
    /\ progress = <<>>

Init ==
    /\ csv \in CsvInputs
    /\ pc = "start"
    /\ acct = NoAcct
    /\ returned = <<>>
    /\ options = "absent"
    /\ Idle

\* a variant of stage 1 in which a ParseError does not leave analyze
ParseThenContinue ==
    /\ pc = "start"
    /\ pc' = "parsed"
    /\ progress' = <<0, 10>>
    /\ graph' = parse(csv)
    /\ UNCHANGED <<csv, patterns, accountScores, suspiciousAccounts, fraudRings, report, acct, returned, options>>

\* stage 1: progress 0, parser.parse, graph.getAllAccounts, progress 10;
\* a ParseError leaves analyze before anything else happens
Parse ==
    /\ pc = "start"
    /\ IF parseError(csv) # "none"
       THEN /\ pc' = "failed"
            /\ progress' = <<0>>
            /\ graph' = graph
       ELSE /\ pc' = "parsed"
            /\ progress' = <<0, 10>>
            /\ graph' = parse(csv)
    /\ UNCHANGED <<csv, patterns, accountScores, suspiciousAccounts, fraudRings, report, acct, returned, options>>

\* stage 2: new GraphAnalyzerEnhanced, progress 20, detectAllPatterns
DetectAllPatterns ==
    /\ pc = "parsed"
    /\ pc' = "detected"
    /\ progress' = Append(progress, 20)
    /\ patterns' = detectAllPatterns(graph)
    /\ graph' = sortOutgoingInPlace(graph)
    /\ UNCHANGED <<csv, accountScores, suspiciousAccounts, fraudRings, report, acct, returned, options>>

\* stage 3: progress 80 and the scoring loop over the accounts
ScoreAccounts ==
    /\ pc = "detected"
    /\ pc' = "scored"
    /\ progress' = Append(progress, 80)
    /\ LET accounts == getAllAccounts(graph)
           scored == scoreAccounts(graph, patterns, accounts, Len(accounts))
       IN /\ accountScores' = scored.accountScores
          /\ suspiciousAccounts' = scored.suspiciousAccounts
    /\ UNCHANGED <<csv, graph, patterns, fraudRings, report, acct, returned, options>>

\* stage 4: progress 90, identifyFraudRingsEnhanced, the FraudRing of every
\* ring and the ring_id of every suspicious account
BuildRings ==
    /\ pc = "scored"
    /\ pc' = "ringed"
    /\ progress' = Append(progress, 90)
    /\ LET suspiciousAccountIds ==
               [i \in 1..Len(suspiciousAccounts) |-> suspiciousAccounts[i].account_id]
           rings == identifyFraudRingsEnhanced(graph, suspiciousAccountIds,
                                               patterns.smurfingRingsLouvain)
       IN /\ fraudRings' = [i \in 1..Len(rings) |-> newFraudRing(rings[i], accountScores)]
          /\ suspiciousAccounts' = assignRingIds(suspiciousAccounts, rings)
    /\ UNCHANGED <<csv, graph, patterns, accountScores, report, acct, returned, options>>

\* stage 5: progress 95, the summary, progress 100, formatter.format
Format ==
    /\ pc = "ringed"
    /\ pc' = "done"
    /\ progress' = progress \o <<95, 100>>
    /\ report' = format(suspiciousAccounts, fraudRings,
                        [total_accounts_analyzed |-> Len(getAllAccounts(graph)),
                         suspicious_accounts_flagged |-> Len(suspiciousAccounts),
                         fraud_rings_detected |-> Len(fraudRings),
                         cycles_detected |-> Len(patterns.cycles),
                         louvain_smurfing_rings_detected |-> Len(patterns.smurfingRingsLouvain),
                         patterns_analyzed |-> 25])
    /\ UNCHANGED <<csv, graph, patterns, accountScores, suspiciousAccounts, fraudRings, acct, returned, options>>

Next == Parse \/ DetectAllPatterns \/ ScoreAccounts \/ BuildRings \/ Format

Spec == Init /\ [][Next]_vars

(***************************************************************************)
(* The analyzer's detectors called one at a time on the graph of a file in *)
(* which one account sends every transfer.                                 *)
(***************************************************************************)
InitVolume ==
    /\ csv \in VolumeCsvInputs
    /\ pc = "start"
    /\ acct = NoAcct
    /\ returned = <<>>
    /\ options = "absent"
    /\ Idle

DetectFanOutPatterns ==
    /\ pc = "parsed"
    /\ pc' = "fanOut"
    /\ patterns' = [NoPatterns EXCEPT !.fanOut = detectFanOutPatterns(graph)]
    /\ UNCHANGED <<csv, graph, accountScores, suspiciousAccounts, fraudRings, report,
                   progress, acct, returned, options>>

DetectFrequencyAnomalies ==
    /\ pc = "parsed"
    /\ pc' = "frequency"
    /\ patterns' = [NoPatterns EXCEPT !.frequency = detectFrequencyAnomalies(graph)]
    /\ UNCHANGED <<csv, graph, accountScores, suspiciousAccounts, fraudRings, report,
                   progress, acct, returned, options>>

NextVolume == Parse \/ DetectFanOutPatterns \/ DetectFrequencyAnomalies

SpecVolume == InitVolume /\ [][NextVolume]_vars

(***************************************************************************)
(* The detectors of the activity over time of an account, each called on   *)
(* the graph of a file of SpecActivity                                     *)
(***************************************************************************)
InitActivity ==
    /\ csv \in BurstCsvInputs \cup DormancyCsvInputs \cup WashCsvInputs
                 \cup CorrelationCsvInputs
    /\ pc = "start"
    /\ acct = NoAcct
    /\ returned = <<>>
    /\ options = "absent"
    /\ Idle

DetectBurstActivity ==
    /\ pc = "parsed"
    /\ pc' = "burst"
    /\ patterns' = [burstActivity |-> detectBurstActivity(graph)]
    /\ UNCHANGED <<csv, graph, accountScores, suspiciousAccounts, fraudRings, report,
                   progress, acct, returned, options>>

DetectDormancyReactivation ==
    /\ pc = "parsed"
    /\ pc' = "dormancy"
    /\ patterns' = [dormancy |-> detectDormancyReactivation(graph)]
    /\ UNCHANGED <<csv, graph, accountScores, suspiciousAccounts, fraudRings, report,
                   progress, acct, returned, options>>

DetectWashTrading ==
    /\ pc = "parsed"
    /\ pc' = "washTrading"
    /\ patterns' = [washTrading |-> detectWashTrading(graph)]
    /\ UNCHANGED <<csv, graph, accountScores, suspiciousAccounts, fraudRings, report,
                   progress, acct, returned, options>>

\* _calculateTemporalCorrelation called on the timelines of two accounts
CalculateTemporalCorrelation ==
    /\ pc = "parsed"
    /\ pc' = "correlated"
    /\ \E acc1, acc2 \in Range(getAllAccounts(graph)) :
          /\ acc1 # acc2
          /\ returned' = <<[acc1 |-> acc1, acc2 |-> acc2,
                            correlation |-> calculateTemporalCorrelation(
                                                SortByTs(inOutTxs(graph, acc1)),
                                                SortByTs(inOutTxs(graph, acc2)))]>>
    /\ UNCHANGED <<csv, graph, patterns, accountScores, suspiciousAccounts, fraudRings,
                   report, progress, acct, options>>

NextActivity ==
    \/ Parse
    \/ DetectBurstActivity
    \/ DetectDormancyReactivation
    \/ DetectWashTrading
    \/ CalculateTemporalCorrelation

SpecActivity == InitActivity /\ [][NextActivity]_vars

(***************************************************************************)
(* A TransactionGraph filled by addTransaction calls of any arguments,     *)
(* transfers of an account to itself and repeated ids included.  csv.rows  *)
(* keeps the arguments of the calls made so far.                           *)
(***************************************************************************)
InitGraph ==
    /\ csv = [kind |-> "ok", rows |-> <<>>, tsMode |-> "column"]
    /\ pc = "graph"
    /\ acct = NoAcct
    /\ returned = <<>>
    /\ options = "absent"
    /\ Idle

AddTransaction ==
    /\ pc = "graph"
    /\ Len(csv.rows) < MaxAdds
    /\ \E senderId \in {"A", "B"}, receiverId \in {"A", "B"}, amount \in {1000, 1050},
          transactionId \in 1..2 :
          /\ graph' = addTransaction(graph, senderId, receiverId, amount,
                                     Len(csv.rows), transactionId)
          /\ csv' = [csv EXCEPT !.rows = Append(@, [sender |-> senderId,
                                                    receiver |-> receiverId,
                                                    amount |-> amount,
                                                    timestamp |-> Len(csv.rows),
                                                    transaction_id |-> transactionId])]
    /\ UNCHANGED <<pc, patterns, accountScores, suspiciousAccounts, fraudRings, report,
                   progress, acct, returned, options>>

NextGraph == AddTransaction

SpecGraph == InitGraph /\ [][NextGraph]_vars

(***************************************************************************)
(* _louvainClustering on the weighted graph of a file of SpecComponents,   *)
(* one node visit at a time.  acct holds the locals of the call:           *)
(* nodeToCommunity, communityNodes, improved, iteration and the index k of *)
(* the node the for loop visits next (0 outside the for loop).             *)
(***************************************************************************)
InitLouvain ==
    /\ csv \in ComponentCsvInputs
    /\ pc = "start"
    /\ acct = NoAcct
    /\ returned = <<>>
    /\ options = "absent"
    /\ Idle

\* "Initialize: each node in its own community"
LouvainStart ==
    /\ pc = "parsed"
    /\ pc' = "louvain"
    /\ acct' = [st |-> louvainStart(buildWeightedGraph(graph)), iteration |-> 0, k |-> 0]
    /\ UNCHANGED <<csv, graph, patterns, accountScores, suspiciousAccounts, fraudRings,
                   report, progress, returned, options>>

\* the while condition holds: improved = false, iteration++
LouvainEnterSweep ==
    /\ pc = "louvain"
    /\ acct.k = 0
    /\ acct.st.improved /\ acct.iteration < maxIterations
    /\ acct' = [st |-> [acct.st EXCEPT !.improved = FALSE],
                iteration |-> acct.iteration + 1, k |-> 1]
    /\ UNCHANGED <<csv, pc, graph, patterns, accountScores, suspiciousAccounts, fraudRings,
                   report, progress, returned, options>>

\* one pass of the body of the for loop
LouvainVisit ==
    /\ pc = "louvain"
    /\ acct.k >= 1
    /\ LET wg == buildWeightedGraph(graph)
       IN acct' = [st |-> louvainVisit(wg, acct.st, acct.k),
                   iteration |-> acct.iteration,
                   k |-> IF acct.k = Len(wg.nodes) THEN 0 ELSE acct.k + 1]
    /\ UNCHANGED <<csv, pc, graph, patterns, accountScores, suspiciousAccounts, fraudRings,
                   report, progress, returned, options>>

\* the while condition fails: "Convert to array format" and return
LouvainReturn ==
    /\ pc = "louvain"
    /\ acct.k = 0
    /\ ~(acct.st.improved /\ acct.iteration < maxIterations)
    /\ pc' = "communities"
    /\ LET ids == DOMAIN acct.st.communityNodes
           kept == {id \in ids : Len(acct.st.communityNodes[id]) > 0}
           idAt(i) == CHOOSE id \in kept : Cardinality({j \in kept : j < id}) = i - 1
       IN returned' = [i \in 1..Cardinality(kept) |->
                         [id |-> idAt(i), members |-> acct.st.communityNodes[idAt(i)],
                          size |-> Len(acct.st.communityNodes[idAt(i)])]]
    /\ UNCHANGED <<csv, graph, patterns, accountScores, suspiciousAccounts, fraudRings,
                   report, progress, acct, options>>

NextLouvain == Parse \/ LouvainStart \/ LouvainEnterSweep \/ LouvainVisit \/ LouvainReturn

SpecLouvain == InitLouvain /\ [][NextLouvain]_vars

(***************************************************************************)
(* detectCycles called on the graph of a file of SpecCycles                *)
(***************************************************************************)
InitCycles ==
    /\ csv \in CycleCsvInputs
    /\ pc = "start"
    /\ acct = NoAcct
    /\ returned = <<>>
    /\ options = "absent"
    /\ Idle

DetectCycles ==
    /\ pc = "parsed"
    /\ pc' = "cycles"
    /\ patterns' = [NoPatterns EXCEPT !.cycles = detectCyclesEfficient(graph)]
    /\ UNCHANGED <<csv, graph, accountScores, suspiciousAccounts, fraudRings, report,
                   progress, acct, returned, options>>

NextCycles == Parse \/ DetectCycles

SpecCycles == InitCycles /\ [][NextCycles]_vars

(***************************************************************************)
(* identifyFraudRings called with any list of the graph's accounts         *)
(***************************************************************************)
InitComponents ==
    /\ csv \in ComponentCsvInputs
    /\ pc = "start"
    /\ acct = NoAcct
    /\ returned = <<>>
    /\ options = "absent"
    /\ Idle

\* suspiciousAccounts holds the argument, fraudRings the rings returned
IdentifyFraudRings ==
    /\ pc = "parsed"
    /\ pc' = "rings"
    /\ \E chosen \in SUBSET Range(getAllAccounts(graph)) :
          LET ids == FilterIn(getAllAccounts(graph), chosen)
          IN /\ suspiciousAccounts' = [i \in 1..Len(ids) |-> [account_id |-> ids[i]]]
             /\ fraudRings' = identifyFraudRings(graph, ids)
    /\ UNCHANGED <<csv, graph, patterns, accountScores, report, progress, acct, returned,
                   options>>

NextComponents == Parse \/ IdentifyFraudRings

SpecComponents == InitComponents /\ [][NextComponents]_vars

\* analyze on the files of SpecCycles: up to MaxOut transfers of each of four
\* accounts
InitFour ==
    /\ csv \in CycleCsvInputs
    /\ pc = "start"
    /\ acct = NoAcct
    /\ returned = <<>>
    /\ options = "absent"
    /\ Idle

SpecFour == InitFour /\ [][Next]_vars

\* analyze on a system constructed with or without enableDeepChainAnalysis
InitDeep ==
    /\ csv \in DeepCsvInputs
    /\ pc = "start"
    /\ acct = NoAcct
    /\ returned = <<>>
    /\ options \in DeepOptions
    /\ Idle

SpecDeep == InitDeep /\ [][Next]_vars

(***************************************************************************)
(* The same system instance analysing the same csvContent once more.  The  *)
(* instance holds a parser, a formatter and the options, none of which     *)
(* analyze writes; the variables of the stages are the locals of the call, *)
(* which the next call assigns before it reads them.                       *)
(***************************************************************************)
\* what a call of analyze gave back: the report, or the ParseError
outcome == IF pc = "failed" THEN [kind |-> "error", message |-> parseError(csv)] ELSE report

AnalyzeAgain ==
    /\ pc \in {"done", "failed"}
    /\ Len(returned) < MaxCalls - 1
    /\ returned' = Append(returned, outcome)
    /\ pc' = "start"
    /\ progress' = <<>>
    /\ UNCHANGED <<csv, graph, patterns, accountScores, suspiciousAccounts, fraudRings,
                   report, acct, options>>

NextTwice == Next \/ AnalyzeAgain

SpecTwice == Init /\ [][NextTwice]_vars

(***************************************************************************)
(* SpecScore: one account taken through calculateSuspicionScore term by    *)
(* term, with every detector free to report any entry it can produce,      *)
(* then through isSuspicious and the formatter's rounding.                 *)
(***************************************************************************)
Hit(fields) == [hit |-> TRUE] @@ fields

\* entries the detectors of the original and enhanced groups can report
SignalChoicesA(k) ==
    CASE k = 1 -> {Hit([minLength |-> l]) : l \in {3, 4, 5}}
      [] k = 2 -> {Hit([receiver_count |-> c]) : c \in {15, 20, 25, 40}}
      [] k = 3 -> {Hit([sender_count |-> c]) : c \in {15, 20, 25, 40}}
      [] k = 4 -> {Hit([shell |-> TRUE])}
      [] k = 5 -> {Hit([length |-> c]) : c \in {1, 5, 10, 100}}
      [] k = 6 -> {Hit([roundCount |-> f[1], total_transactions |-> f[2]]) :
                     f \in {<<3, 4>>, <<4, 5>>, <<9, 10>>, <<1, 1>>}}
      [] k = 7 -> {Hit([nearThreshold |-> f[1], transaction_count |-> f[2]]) :
                     f \in {<<0, 2>>, <<3, 5>>, <<4, 5>>, <<1, 1>>}}
      [] k = 8 -> {Hit([velocity |-> v]) : v \in {600, 1000, 1100, 1500, 1600}}
      [] k = 9 -> {Hit([outlierRatio |-> r]) : r \in {33, 50, 60, 70, 75, 100}}
      [] k = 10 -> {Hit([nightRatio |-> f[1], weekendRatio |-> f[2]]) :
                      f \in {<<60, 0>>, <<75, 0>>, <<0, 75>>, <<0, 100>>, <<100, 100>>}}
      [] k = 11 -> {Hit([maxBurstSize |-> c]) : c \in {3, 5, 10}}
      [] k = 12 -> {Hit([dormancyDays |-> f[1], txsAfterReactivation |-> f[2]]) :
                      f \in {<<30, 3>>, <<31, 3>>, <<91, 6>>, <<181, 10>>, <<181, 11>>}}
      [] k = 13 -> {Hit([splitCount |-> c]) : c \in {3, 5, 10}}

\* entries the detectors of the later groups can report
SignalChoicesB(k) ==
    CASE k = 14 -> {Hit([txsPerDay |-> v]) : v \in {2000, 2001, 5000, 5001}}
      [] k = 15 -> {Hit([influenceScore |-> v]) : v \in {500, 600, 601, 800, 801, 1000}}
      [] k = 16 -> {Hit([roundTripCount |-> c]) : c \in {2, 3, 5, 10}}
      [] k = 17 -> {Hit([maxLayerDepth |-> f[1], chainComplexity |-> f[2]]) :
                      f \in {<<4, 5>>, <<5, 6>>, <<6, 7>>, <<6, 51>>}}
      [] k = 18 -> {Hit([diversityRatio |-> f[1], topCounterpartyConcentration |-> f[2]]) :
                      f \in {<<10, 50>>, <<10, 80>>, <<25, 50>>, <<25, 80>>, <<30, 50>>}}
      [] k = 19 -> {Hit([pattern |-> f[1], multiplier |-> f[2], trendStrength |-> f[3]]) :
                      f \in {<<"escalating", 1001, 70>>, <<"escalating", 600, 70>>,
                              <<"escalating", 150, 100>>, <<"de-escalating", 2000, 70>>}}
      [] k = 20 -> {Hit([pattern |-> f[1], peakConcentration |-> f[2]]) :
                      f \in {<<"single-hour", 80>>, <<"single-hour", 65>>,
                              <<"narrow-window", 90>>, <<"narrow-window", 55>>}}
      [] k = 21 -> {Hit([longestChainLength |-> f[1], chainCount |-> f[2]]) :
                      f \in {<<5, 1>>, <<6, 1>>, <<7, 1>>, <<7, 10>>}}
      [] k = 22 -> {Hit([correlatedCount |-> c]) : c \in {2, 3, 5}}
      [] k = 23 -> {Hit([clusterCount |-> c]) : c \in {2, 3, 5}}
      [] k = 24 -> {Hit([washTradeCount |-> c]) : c \in {3, 5, 10}}
      [] k = 25 -> {Hit([smurfingScore |-> f[1], isBeneficiary |-> f[2], pattern |-> f[3],
                         density |-> f[4], amountConsistency |-> f[5]]) :
                      f \in {<<251, FALSE, "DISTRIBUTED_SMURFING_NETWORK", 100, 0>>,
                              <<625, FALSE, "STRUCTURED_SMURFING", 333, 1000>>,
                              <<400, TRUE, "SINGLE_BENEFICIARY_SMURFING", 400, 500>>,
                              <<700, TRUE, "MULTI_BENEFICIARY_RING", 600, 850>>,
                              <<1000, TRUE, "STRUCTURED_SMURFING", 1000, 1000>>}}

SignalChoices(k) == {NoHit} \cup (IF k <= 13 THEN SignalChoicesA(k) ELSE SignalChoicesB(k))

\* the values _calculateLegitimacyPenalty can return: one outcome per branch
PenaltyChoices ==
    {Pts(payroll + merchant + utility + business + savings) :
        payroll \in {0, -15, -25}, merchant \in {0, -10, -20}, utility \in {0, -8, -15},
        business \in {0, -20}, savings \in {0, -15}}

InitScore ==
    /\ csv = [kind |-> "blank", rows |-> <<>>, tsMode |-> "asc"]
    /\ pc = "scoring"
    /\ acct = [step |-> 1, score |-> 0, nPatterns |-> 0, hasCycle |-> FALSE,
               raw |-> 0, result |-> -1, suspicious |-> FALSE, emitted |-> -1]
    /\ returned = <<>>
    /\ options = "absent"
    /\ Idle

\* the k-th statement `score += ...` together with the k-th check of
\* _getDetectedPatternsForAccount, for whatever the k-th detector reported
ScoreTerm ==
    /\ pc = "scoring"
    /\ acct.step <= NumScorers
    /\ \E e \in SignalChoices(acct.step) :
          acct' = [acct EXCEPT !.step = @ + 1,
                               !.score = @ + scorerPoints(acct.step, e),
                               !.nPatterns = @ + Len(labelsOf(acct.step, e)),
                               !.hasCycle = @ \/ (acct.step = 1 /\ e.hit)]
    /\ UNCHANGED <<csv, pc, graph, patterns, accountScores, suspiciousAccounts,
                   fraudRings, report, progress, returned, options>>

\* the penalty, the clamp and the isSuspicious test of the scoring loop
FinishScore ==
    /\ pc = "scoring"
    /\ acct.step = NumScorers + 1
    /\ \E penalty \in PenaltyChoices :
          LET result == clampScore(acct.score + penalty)
          IN acct' = [acct EXCEPT !.step = @ + 1,
                                  !.raw = acct.score + penalty,
                                  !.result = result,
                                  !.suspicious = isSuspicious(result, acct.nPatterns,
                                                              acct.hasCycle)]
    /\ UNCHANGED <<csv, pc, graph, patterns, accountScores, suspiciousAccounts,
                   fraudRings, report, progress, returned, options>>

\* the formatter's entry for the account when it was pushed as suspicious
EmitAccount ==
    /\ pc = "scoring"
    /\ acct.step = NumScorers + 2
    /\ acct' = [acct EXCEPT !.step = @ + 1,
                            !.emitted = IF acct.suspicious THEN toFixed1(acct.result) ELSE -1]
    /\ UNCHANGED <<csv, pc, graph, patterns, accountScores, suspiciousAccounts,
                   fraudRings, report, progress, returned, options>>

NextScore == ScoreTerm \/ FinishScore \/ EmitAccount

SpecScore == InitScore /\ [][NextScore]_vars

(***************************************************************************)
(* SpecRings: the same analysis on files over six accounts, long enough    *)
(* to hold a connectivity ring next to a Louvain community.                *)
(***************************************************************************)
InitRings ==
    /\ csv \in RingCsvInputs
    /\ pc = "start"
    /\ acct = NoAcct
    /\ returned = <<>>
    /\ options = "absent"
    /\ Idle

SpecRings == InitRings /\ [][Next]_vars

(***************************************************************************)
(* Properties of the scorer (SpecScore)                                    *)
(***************************************************************************)
\* C1: whatever signals fired and whatever penalties applied, the value
\* calculateSuspicionScore returns lies in [0,100], and so does the
\* suspicion_score of the account when the report emits it.
C1_ScoreInRange ==
    /\ acct.step > NumScorers + 1 => (0 <= acct.result /\ acct.result <= Pts(100))
    /\ acct.emitted # -1 => (0 <= acct.emitted /\ acct.emitted <= 1000)

\* an account whose sum of contributions exceeded 100 was emitted with 100.0
C1_Witness ==
    /\ acct.step = NumScorers + 3
    /\ acct.raw > Pts(100)
    /\ acct.emitted = 1000

\* the emission rule as the specification words it, on a score in hundredths
EmissionRule(score, nPatterns, hasCycle) ==
    \/ score >= Pts(80)
    \/ score >= Pts(70) /\ nPatterns >= 3
    \/ score >= Pts(60) /\ hasCycle /\ nPatterns >= 3
    \/ score >= Pts(50) /\ hasCycle /\ nPatterns >= 4

C2_OrderedByScoreThenId ==
    pc = "done" =>
        \A i, j \in 1..Len(report.suspicious_accounts) :
            i < j =>
                LET a == report.suspicious_accounts[i]
                    b == report.suspicious_accounts[j]
                IN \/ a.suspicion_score > b.suspicion_score
                   \/ a.suspicion_score = b.suspicion_score /\ IdLess(a.account_id, b.account_id)

\* C3: the risk_score of every ring of a report lies in [0,100] (in tenths: 0..1000).
C3_RingRiskInRange ==
    pc = "done" =>
        \A i \in 1..Len(report.fraud_rings) :
            0 <= report.fraud_rings[i].risk_score /\ report.fraud_rings[i].risk_score <= 1000

\* a cycle rotated to start at its smallest account id
RotateToMin(s) ==
    LET m == CHOOSE i \in 1..Len(s) : \A j \in 1..Len(s) : ~IdLess(s[j], s[i])
    IN SubSeq(s, m, Len(s)) \o SubSeq(s, 1, m - 1)

\* C4: every cycle cycle detection returns is simple, has length 3, 4 or 5,
\* and no two returned cycles have the same form once rotated to start at
\* their smallest account id.
C4_CyclesNormalizedOnce ==
    \A i \in 1..Len(patterns.cycles) :
        LET c == patterns.cycles[i].accounts
        IN /\ \A x, y \in 1..Len(c) : x # y => c[x] # c[y]
           /\ Len(c) \in {3, 4, 5}
           /\ \A j \in 1..Len(patterns.cycles) :
                 j # i => RotateToMin(patterns.cycles[j].accounts) # RotateToMin(c)

\* C5: an analysis whose input gives an empty graph ends without a report.
C5_EmptyGraphFailsFast ==
    getAllAccounts(parse(csv)) = <<>> => (pc # "done" /\ report = NoReport)

\* the file A->B, B->C, C->A: one transaction of 1000 each, one hour apart
ThreeCycleCsv ==
    [kind |-> "ok",
     rows |-> <<[sender |-> "A", receiver |-> "B", amount |-> 1000],
                [sender |-> "B", receiver |-> "C", amount |-> 1000],
                [sender |-> "C", receiver |-> "A", amount |-> 1000]>>,
     tsMode |-> "asc"]

\* C7: for the 3-cycle file the report holds exactly one ring, with
\* member_accounts [A,B,C] and pattern_type "cycle".
C7_ThreeCycleRing ==
    (pc = "done" /\ csv = ThreeCycleCsv) =>
        /\ Len(report.fraud_rings) = 1
        /\ report.fraud_rings[1].member_accounts = <<"A", "B", "C">>
        /\ report.fraud_rings[1].pattern_type = "cycle"

\* C8: the ring ids of fraud_rings are pairwise distinct, and every ring_id
\* a suspicious account carries is the id of an entry of fraud_rings.
C8_RingIdsConsistent ==
    pc = "done" =>
        /\ \A i, j \in 1..Len(report.fraud_rings) :
              i # j => report.fraud_rings[i].ring_id # report.fraud_rings[j].ring_id
        /\ \A k \in 1..Len(report.suspicious_accounts) :
              report.suspicious_accounts[k].ring_id # Null =>
                  \E i \in 1..Len(report.fraud_rings) :
                      report.fraud_rings[i].ring_id = report.suspicious_accounts[k].ring_id

\* a report with a connectivity ring, a Louvain ring and an account carrying a ring id
C8_Witness ==
    /\ pc = "done"
    /\ \E i, j \in 1..Len(report.fraud_rings) :
          /\ report.fraud_rings[i].detection_method = "connectivity_analysis"
          /\ report.fraud_rings[j].detection_method = "louvain_community_detection"
    /\ \E k \in 1..Len(report.suspicious_accounts) :
          report.suspicious_accounts[k].ring_id # Null

\* C9: every member of every ring of a report is emitted in suspicious_accounts.
C9_MembersAreSuspicious ==
    pc = "done" =>
        \A i \in 1..Len(report.fraud_rings) :
            \A m \in 1..Len(report.fraud_rings[i].member_accounts) :
                \E k \in 1..Len(report.suspicious_accounts) :
                    report.suspicious_accounts[k].account_id
                        = report.fraud_rings[i].member_accounts[m]

\* C10: member_accounts of every ring of a report is non-empty and strictly
\* ascending, hence sorted and free of duplicates.
C10_MembersSorted ==
    pc = "done" =>
        \A i \in 1..Len(report.fraud_rings) :
            LET members == report.fraud_rings[i].member_accounts
            IN /\ members # <<>>
               /\ \A m \in 1..(Len(members) - 1) : IdLess(members[m], members[m + 1])

\* a report with a connectivity ring of several members and a Louvain ring,
\* for a file that names its accounts out of ascending order
C10_Witness ==
    /\ pc = "done"
    /\ getAllAccounts(graph) # SortIds(getAllAccounts(graph))
    /\ \E i, j \in 1..Len(report.fraud_rings) :
          /\ report.fraud_rings[i].detection_method = "connectivity_analysis"
          /\ Len(report.fraud_rings[i].member_accounts) >= 2
          /\ report.fraud_rings[j].detection_method = "louvain_community_detection"


\* ---------------------------------------------------------------------
\* C11
Milestones == <<0, 10, 20, 80, 90, 95, 100>>

IsPrefix(s, t) == Len(s) <= Len(t) /\ \A i \in 1..Len(s) : s[i] = t[i]

C12_SameOutcomeAgain ==
    (pc \in {"done", "failed"}) =>
        \A i \in 1..Len(returned) : returned[i] = outcome

C12_Witness ==
    /\ pc = "done"
    /\ Len(returned) = 1
    /\ returned[1] = report
    /\ report.fraud_rings # <<>>
    /\ graph # parse(csv)


\* ---------------------------------------------------------------------
\* C13: on a system whose options do not set enableDeepChainAnalysis (the
\* option absent or false) the money-laundering-chain detector reports
\* nothing, its scorer adds 0 to every account's score, no suspicious
\* account carries the label money_laundering_chain, and a file that parses
\* is analysed to the end without an error.
C13_DeepChainsOffByDefault ==
    options # "true" =>
        /\ patterns.moneyLaunderingChains = <<>>
        /\ \A a \in Accounts :
              /\ signalsOf(patterns, a)[21] = NoHit
              /\ scorerPoints(21, signalsOf(patterns, a)[21]) = 0
        /\ \A i \in 1..Len(suspiciousAccounts) :
              ~Includes(suspiciousAccounts[i].detected_patterns, "money_laundering_chain")
        /\ pc = "failed" => parseError(csv) # "none"
        /\ report # NoReport =>
              \A i \in 1..Len(report.suspicious_accounts) :
                  ~Includes(report.suspicious_accounts[i].detected_patterns,
                            "money_laundering_chain")

\* a finished analysis, without the option, of a file on which the detector
\* would have found a chain
C13_Witness ==
    /\ options # "true"
    /\ pc = "done"
    /\ detectMoneyLaunderingChains(graph) # <<>>
    /\ report.suspicious_accounts # <<>>


\* ---------------------------------------------------------------------
\* C14
\* the distinct receivers of the account's outgoing transfers that fall in the
\* 72 hours from the transfer t on, both ends included
ReceiversWithin72h(outgoing, t) ==
    {outgoing[j].receiver_id :
        j \in {m \in 1..Len(outgoing) :
                 /\ outgoing[m].timestamp >= outgoing[t].timestamp
                 /\ outgoing[m].timestamp <= outgoing[t].timestamp + 72}}

C14_QuietWitness ==
    /\ pc = "fanOut"
    /\ csv.tsMode = "last73"
    /\ Len(csv.rows) = 15
    /\ patterns.fanOut = <<>>
    /\ Cardinality(Range([i \in 1..15 |-> csv.rows[i].receiver])) = 15


\* ---------------------------------------------------------------------
\* C15: the transactions-per-day value the frequency-anomaly detector
\* reports for an account is a finite number, also when the account's
\* twenty or more transactions all carry one timestamp.
C15_TxsPerDayFinite ==
    \A a \in DOMAIN patterns.frequency : patterns.frequency[a].txsPerDay # Infinity


\* ---------------------------------------------------------------------
\* C16: the risk score of a ring is (0.6 * max + 0.4 * avg) * multiplier
\* with multiplier = 1.0 + 0.1 * min(size - 2, 8) over its members' scores:
\* the multiplier scales the whole weighted sum.  Scores are in hundredths,
\* the multiplier in tenths and the risk a fraction of hundredths, so the
\* equation is 10 * num = (60 * n * max + 40 * sum) * multiplier over the
\* denominator 100 * 100 * n.
C16_MultiplierScalesWholeSum ==
    \A i \in 1..Len(fraudRings) :
        LET members == fraudRings[i].member_accounts
            n == Len(members)
            scores == [j \in 1..n |-> IF members[j] \in DOMAIN accountScores
                                      THEN accountScores[members[j]] ELSE 0]
        IN /\ fraudRings[i].risk_score.den = 100 * 100 * n
           /\ 10 * fraudRings[i].risk_score.num
                 = (60 * n * MaxSeq(scores) + 40 * SumSeq(scores)) * (10 + Min2(n - 2, 8))


\* ---------------------------------------------------------------------
\* C17: the detectors leave the graph as the parser built it: after
\* detectAllPatterns every account's outgoing list and incoming list hold
\* the same transactions in the same order as before.
C17_DetectorsLeaveGraphUnchanged ==
    pc \in {"detected", "scored", "ringed", "done"} =>
        \A a \in Accounts :
            /\ getOutgoingTransactions(graph, a) = getOutgoingTransactions(parse(csv), a)
            /\ getIncomingTransactions(graph, a) = getIncomingTransactions(parse(csv), a)


\* ---------------------------------------------------------------------
\* C18
\* some node has, in the assignment st, a neighbouring community whose move
\* gain (weight to the target minus half the weight to its own) is positive
PositiveGainLeft(wg, st) ==
    \E k \in 1..Len(wg.nodes) :
        LET node == wg.nodes[k]
            cands == gainCommunities(wg, node, st.nodeToCommunity)
        IN \E i \in 1..Len(cands) :
              calculateModularityGain(wg, node, st.nodeToCommunity[node], cands[i],
                                      st.nodeToCommunity) > 0

SimpleCycles(g) ==
    LET accounts == Range(getAllAccounts(g))
        edge(a, b) == \E i \in 1..Len(g.out[a]) : g.out[a][i].receiver_id = b
    IN {c \in UNION {[1..n -> accounts] : n \in 3..Min2(5, Cardinality(accounts))} :
          /\ \A i, j \in 1..Len(c) : i # j => c[i] # c[j]
          /\ \A i \in 2..Len(c) : IdLess(c[1], c[i])
          /\ \A i \in 1..Len(c) : edge(c[i], c[(i % Len(c)) + 1])}

\* C19: when the graph has fewer than maxCycles simple directed cycles of
\* length 3 to 5, cycle detection returns every one of them, as one of its
\* rotations, whatever the order of the accounts and of their outgoing
\* transfers.
C19_EveryCycleReported ==
    pc = "cycles" =>
        (Cardinality(SimpleCycles(graph)) < maxCycles =>
            \A c \in SimpleCycles(graph) :
                \E i \in 1..Len(patterns.cycles) : RotateToMin(patterns.cycles[i].accounts) = c)


\* ---------------------------------------------------------------------
\* C20
\* some transaction of the graph runs between a and b, in either direction
Linked(g, a, b) ==
    \E i \in 1..Len(g.txs) :
        \/ g.txs[i].sender_id = a /\ g.txs[i].receiver_id = b
        \/ g.txs[i].sender_id = b /\ g.txs[i].receiver_id = a

\* the accounts of S joined to a by a path of transactions through S only
RECURSIVE JoinedWithin(_, _, _)
JoinedWithin(g, S, R) ==
    LET more == R \cup {b \in S : \E c \in R : Linked(g, b, c)}
    IN IF more = R THEN R ELSE JoinedWithin(g, S, more)

\* C20: the connectivity rings are the connected components of the
\* suspicious subgraph: every suspicious account is a member of exactly one
\* ring, every member is suspicious, and two suspicious accounts are in the
\* same ring exactly when a path of transactions, in either direction and
\* through suspicious accounts only, joins them.
C20_RingsAreComponents ==
    pc = "rings" =>
        LET S == {suspiciousAccounts[i].account_id : i \in 1..Len(suspiciousAccounts)}
            ringsOf(a) == {i \in 1..Len(fraudRings) : Includes(fraudRings[i].member_accounts, a)}
        IN /\ \A a \in S : Cardinality(ringsOf(a)) = 1
           /\ \A i \in 1..Len(fraudRings) :
                 /\ fraudRings[i].member_accounts # <<>>
                 /\ Range(fraudRings[i].member_accounts) \subseteq S
           /\ \A a, b \in S : ringsOf(a) = ringsOf(b) <=> b \in JoinedWithin(graph, S, {a})

\* two suspicious accounts that only a path through an account that is not
\* suspicious joins, in two rings, one of which has two members
C20_Witness ==
    /\ pc = "rings"
    /\ Len(fraudRings) = 2
    /\ \E i \in 1..2 : Len(fraudRings[i].member_accounts) = 2
    /\ LET S == {suspiciousAccounts[i].account_id : i \in 1..Len(suspiciousAccounts)}
       IN \E a, b \in S :
             /\ b \notin JoinedWithin(graph, S, {a})
             /\ b \in JoinedWithin(graph, Range(getAllAccounts(graph)), {a})


\* ---------------------------------------------------------------------
\* C21
\* the ids of the suspicious accounts, in the order ring assembly gets them
SuspiciousIds == [i \in 1..Len(suspiciousAccounts) |-> suspiciousAccounts[i].account_id]

\* |intersection| / min(sizes) > 0.7 for two member lists
OverlapAbove70(m1, m2) ==
    10 * Cardinality(Range(m1) \cap Range(m2))
        > 7 * Min2(Cardinality(Range(m1)), Cardinality(Range(m2)))

\* the Louvain rings, by position, that no connectivity ring overlaps
AcceptedLouvain ==
    LET conn == identifyFraudRings(graph, SuspiciousIds)
        lou == patterns.smurfingRingsLouvain
    IN {k \in 1..Len(lou) :
          \A i \in 1..Len(conn) : ~OverlapAbove70(lou[k].members, conn[i].member_accounts)}

Communities == louvainClustering(buildWeightedGraph(graph))

\* the smurfing score of a community, in units of 1e-8
ScoreOf(community) == calculateSmurfingScore(analyzeCommunityStructure(graph, community))

C23_ThreeWitness ==
    /\ pc = "done"
    /\ \E r \in 1..Len(patterns.smurfingRingsLouvain) :
          /\ patterns.smurfingRingsLouvain[r].size = 3
          /\ patterns.smurfingRingsLouvain[r].smurfingScore <= 600

\* ---------------------------------------------------------------------
\* C24
\* the gaps between the events of an account, oldest first
GapsOf(a) ==
    LET txs == SortByTs(inOutTxs(graph, a))
    IN [i \in 1..(Len(txs) - 1) |-> txs[i + 1].timestamp - txs[i].timestamp]

\* gaps i..j are all below 0.2 times the mean gap
ShortRun(gaps, i, j) ==
    \A k \in i..j : 5 * gaps[k] * Len(gaps) < SumSeq(gaps)

\* C24: for every account with at least 10 events, burst_activity fires
\* exactly when its gaps contain a run of at least 3 consecutive gaps below
\* 0.2 times the mean gap, wherever the run lies.
C24_BurstFiresIffRunOfThree ==
    pc = "burst" =>
        \A a \in Range(getAllAccounts(graph)) :
            LET gaps == GapsOf(a)
            IN Len(inOutTxs(graph, a)) >= 10 =>
                  (a \in DOMAIN patterns.burstActivity
                     <=> \E i \in 1..(Len(gaps) - 2) : ShortRun(gaps, i, i + 2))

\* ---------------------------------------------------------------------
\* C25
\* the position of the first longest of the gaps
LongestGapAt(gaps) ==
    CHOOSE i \in 1..Len(gaps) :
        /\ \A j \in 1..Len(gaps) : gaps[j] <= gaps[i]
        /\ \A j \in 1..(i - 1) : gaps[j] < gaps[i]

\* C25: for every account, whatever the number of its events,
\* dormancy_reactivation fires exactly when its longest gap exceeds 30 days
\* and at least 3 events follow that gap.
C25_DormancyFiresIffGapAndThreeAfter ==
    pc = "dormancy" =>
        \A a \in Range(getAllAccounts(graph)) :
            LET gaps == GapsOf(a)
                at == LongestGapAt(gaps)
            IN a \in DOMAIN patterns.dormancy
                 <=> /\ gaps # <<>>
                     /\ gaps[at] > 30 * 24
                     /\ Len(gaps) + 1 - at >= 3

\* ---------------------------------------------------------------------
\* C26
\* the (outgoing, incoming) pairs of an account with the same counterparty,
\* amounts within 10% and at most 48 hours apart
WashMatches(a) ==
    LET outgoing == getOutgoingTransactions(graph, a)
        incoming == getIncomingTransactions(graph, a)
    IN {p \in (1..Len(outgoing)) \X (1..Len(incoming)) :
          LET o == outgoing[p[1]]
              i == incoming[p[2]]
          IN /\ o.receiver_id = i.sender_id
             /\ 10 * (IF o.amount > i.amount THEN o.amount - i.amount
                      ELSE i.amount - o.amount) <= o.amount
             /\ o.timestamp - i.timestamp <= 48
             /\ i.timestamp - o.timestamp <= 48}

\* C26: for every account, whatever the numbers of its outgoing and incoming
\* transactions, wash_trading fires when at least 3 matches exist, and the
\* recorded match count never exceeds 10.
C26_WashTradingFiresOnThreeMatches ==
    pc = "washTrading" =>
        \A a \in Range(getAllAccounts(graph)) :
            /\ Cardinality(WashMatches(a)) >= 3 => a \in DOMAIN patterns.washTrading
            /\ a \in DOMAIN patterns.washTrading
                  => patterns.washTrading[a].washTradeCount <= 10

\* ---------------------------------------------------------------------
\* C27
\* the events of timeline s that have an event of timeline t within one hour
EventsNear(s, t) ==
    {i \in 1..Len(s) : \E j \in 1..Len(t) :
        /\ s[i].timestamp - t[j].timestamp <= 1
        /\ t[j].timestamp - s[i].timestamp <= 1}

\* C27: for two non-empty timelines _calculateTemporalCorrelation returns a
\* value in [0, 1], the fraction of the events of the shorter timeline that
\* have an event of the other timeline within one hour, and the same value
\* whichever timeline is passed first.
C27_CorrelationIsFractionOfShorter ==
    pc = "correlated" =>
        LET timeline1 == SortByTs(inOutTxs(graph, returned[1].acc1))
            timeline2 == SortByTs(inOutTxs(graph, returned[1].acc2))
            value == returned[1].correlation
            swapped == calculateTemporalCorrelation(timeline2, timeline1)
        IN /\ 0 <= value.num /\ value.num <= value.den
           /\ Len(timeline1) < Len(timeline2) =>
                 value.num * Len(timeline1) = Cardinality(EventsNear(timeline1, timeline2)) * value.den
           /\ Len(timeline2) < Len(timeline1) =>
                 value.num * Len(timeline2) = Cardinality(EventsNear(timeline2, timeline1)) * value.den
           /\ value.num * swapped.den = swapped.num * value.den

\* ---------------------------------------------------------------------
\* C28
\* the transactions of the first k calls whose sender (side "sender") or
\* receiver (side "receiver") is account a, in call order
RECURSIVE AddedWith(_, _, _)
AddedWith(side, a, k) ==
    IF k = 0 THEN <<>>
    ELSE LET r == csv.rows[k]
             transaction == [transaction_id |-> r.transaction_id, sender_id |-> r.sender,
                             receiver_id |-> r.receiver, amount |-> r.amount,
                             timestamp |-> r.timestamp]
         IN IF r[side] = a THEN Append(AddedWith(side, a, k - 1), transaction)
            ELSE AddedWith(side, a, k - 1)

\* C28: after any sequence of addTransaction calls, the outgoing list of an
\* account is the transactions added with it as sender, each once and in
\* call order, its incoming list the transactions added with it as receiver,
\* and the account set is the union of the keys of both maps.
C28_EveryTransactionOnceInBothLists ==
    pc = "graph" =>
        /\ \A a \in Accounts :
              /\ getOutgoingTransactions(graph, a) = AddedWith("sender", a, Len(csv.rows))
              /\ getIncomingTransactions(graph, a) = AddedWith("receiver", a, Len(csv.rows))
        /\ Range(getAllAccounts(graph)) = Range(graph.outKeys) \cup Range(graph.inKeys)
        /\ Range(graph.outKeys) = {csv.rows[k].sender : k \in 1..Len(csv.rows)}
        /\ Range(graph.inKeys) = {csv.rows[k].receiver : k \in 1..Len(csv.rows)}

\* three calls: a transfer of A to itself, then the pair A to B twice, the
\* last call with the id of the first
C28_Witness ==
    /\ pc = "graph"
    /\ Len(csv.rows) = 3
    /\ csv.rows[1].sender = "A" /\ csv.rows[1].receiver = "A"
    /\ csv.rows[2].sender = "A" /\ csv.rows[2].receiver = "B"
    /\ csv.rows[3].sender = "A" /\ csv.rows[3].receiver = "B"
    /\ csv.rows[3].transaction_id = csv.rows[1].transaction_id
    /\ Len(graph.out["A"]) = 3
    /\ Len(graph.txs) = 2

\* ---------------------------------------------------------------------
\* C29: after every node visit of every sweep of Louvain clustering each
\* node is in exactly one community, the one nodeToCommunity names for it,
\* and the non-empty communities returned at the end are pairwise disjoint
\* and cover every account.
C29_CommunitiesPartitionNodes ==
    /\ pc = "louvain" =>
          LET nodes == Range(getAllAccounts(graph))
              communityNodes == acct.st.communityNodes
          IN /\ DOMAIN acct.st.nodeToCommunity = nodes
             /\ \A node \in nodes :
                   {id \in DOMAIN communityNodes : Includes(communityNodes[id], node)}
                       = {acct.st.nodeToCommunity[node]}
             /\ \A id \in DOMAIN communityNodes :
                   /\ Range(communityNodes[id]) \subseteq nodes
                   /\ Cardinality(Range(communityNodes[id])) = Len(communityNodes[id])
    /\ pc = "communities" =>
          /\ \A i \in 1..Len(returned) :
                /\ returned[i].size > 0
                /\ Cardinality(Range(returned[i].members)) = returned[i].size
                /\ \A j \in 1..Len(returned) :
                      i # j => Range(returned[i].members) \cap Range(returned[j].members) = {}
          /\ UNION {Range(returned[i].members) : i \in 1..Len(returned)}
                = Range(getAllAccounts(graph))
          /\ returned = louvainClustering(buildWeightedGraph(graph))

\* in a second or later sweep, after a move of that sweep, one community is
\* empty and another holds two or more nodes
C29_Witness ==
    /\ pc = "louvain"
    /\ acct.iteration >= 2
    /\ acct.st.improved
    /\ \E id \in DOMAIN acct.st.communityNodes : Len(acct.st.communityNodes[id]) = 0
    /\ \E id \in DOMAIN acct.st.communityNodes : Len(acct.st.communityNodes[id]) >= 2

\* ---------------------------------------------------------------------
\* C30
\* the positions of the rings of the report that list the account
RingsListing(accountId) ==
    {i \in 1..Len(report.fraud_rings) :
        \E m \in 1..Len(report.fraud_rings[i].member_accounts) :
            report.fraud_rings[i].member_accounts[m] = accountId}

\* C30: every suspicious account of a report has a ring_id that is not
\* null, the id of a ring that lists the account, and of the last such ring
\* of fraud_rings.
C30_RingIdIsLastRingListingAccount ==
    pc = "done" =>
        \A k \in 1..Len(report.suspicious_accounts) :
            LET account == report.suspicious_accounts[k]
                mine == RingsListing(account.account_id)
            IN /\ account.ring_id # Null
               /\ mine # {}
               /\ \E i \in mine :
                     /\ \A j \in mine : j <= i
                     /\ report.fraud_rings[i].ring_id = account.ring_id

\* a report with a suspicious account that two rings list
C30_Witness ==
    /\ pc = "done"
    /\ \E k \in 1..Len(report.suspicious_accounts) :
          Cardinality(RingsListing(report.suspicious_accounts[k].account_id)) >= 2
====
